---- MODULE Spec2Model ----
(***************************************************************************)
(* ShadowTrace: the persistent ranking cache (js/cache.js) and the         *)
(* sliding-window request tracker (js/rate-limiter.js) as state machines.  *)
(*                                                                         *)
(* Times are milliseconds, as Date.now() returns them.  The persistent     *)
(* parts (the localforage store, the localStorage keys) survive Reload;    *)
(* the fields of the RankingCache object and the static requestHistory do  *)
(* not.                                                                    *)
(***************************************************************************)
EXTENDS Integers, Sequences, FiniteSets, TLC

VARIABLES
    now,                        \* Date.now()
    storage,                    \* localforage instance: key -> item, DOMAIN = keys()
    search_in_progress,         \* localStorage 'search_in_progress'
    initialized,                \* RankingCache.initialized
    searchStartTime,            \* RankingCache.searchStartTime
    keysAddedInCurrentSearch,   \* RankingCache.keysAddedInCurrentSearch
    requestHistory,             \* RateLimiter.requestHistory
    fflogs_request_history,     \* localStorage 'fflogs_request_history'
    result,                     \* the last operation, its arguments and its return value
    sessionWrites,              \* history: keys set() stored since the last startSearch
    preKeys,                    \* history: keys whose item is untouched since that startSearch
    orphan,                     \* history: key -> start of the dead session that wrote its item
    accessToken,                \* FFLogsAPI.accessToken: "none" (null) or "token"
    rateLimitPerHour,           \* FFLogsAPI.rateLimitPerHour
    pointsSpent,                \* FFLogsAPI.pointsSpent
    pointsResetIn,              \* FFLogsAPI.pointsResetIn
    updateInterval,             \* FFLogsAPI.updateInterval: the refresh timer is set
    isWaiting,                  \* FFLogsAPI.isWaiting
    controller,                 \* FFLogsAPI.controller: "none" (null) or the "live" AbortController
    pc,                         \* where the running query() is
    signal,                     \* the signal query() took from _getSignal(): "live" or "aborted"
    requestCount,               \* query()'s argument
    remainingSeconds,           \* query()'s countdown
    absoluteStartTime,          \* LogMatcher.absoluteStartTime
    duration,                   \* LogMatcher.duration
    fightMatches,               \* searchFights: the candidates match() accepted
    verifiedMatches,            \* searchFights: those verifyRDPS accepted
    matchIndex,                 \* searchFights: position of the verification loop
    searchPhase,                \* searchFights: "match", "verify", "verified", "aborted", "failed"
    aborted,                    \* signal.aborted of the search's AbortController
    lastPage,                   \* the remote ranking has pages 1..lastPage non-empty
    low,                        \* findMaxPages
    high,                       \* findMaxPages
    maxValidPage,               \* findMaxPages
    probes,                     \* getEncounterRankings calls made by findMaxPages
    probeErrors,                \* those that failed with an ordinary error
    pagesPc,                    \* findMaxPages: "loop", "returned", "thrown"
    anonymousFightID,           \* LogMatcher.anonymousFightID
    batchPc,                    \* getEncounterRankingsBatch: "idle", "query", "store", "returned", "thrown"
    startPage,                  \* getEncounterRankingsBatch's argument
    pageCount,                  \* getEncounterRankingsBatch's argument
    pages,                      \* getEncounterRankingsBatch: the pages not in the cache
    cachedResults,              \* getEncounterRankingsBatch: {page, data} read from the cache
    results,                    \* getEncounterRankingsBatch: {page, data} of the response
    storeIndex,                 \* getEncounterRankingsBatch: position of the storing loop
    worldData,                  \* data.worldData of the batch's response
    batchCalls,                 \* history: the api.query calls of the batch
    batchReturn,                \* what getEncounterRankingsBatch returned
    runPhase,                   \* startSearch: "idle", "running", "cancelled", "failed", "finished"
    roundPc,                    \* searchFights' page loop: "top", "batch", "delay", "done", "aborted", "fatal"
    pageNo,                     \* searchFights: page, in tenths of a page
    hasMorePages,               \* searchFights: hasMorePages
    dynamicBatchSize,           \* searchFights: dynamicBatchSize, in tenths of a page
    retry,                      \* searchFights: retry
    attempts,                   \* history: calls of the batch of this round
    delays,                     \* history: waits between them
    failures,                   \* history: failed calls of the fight
    hasCache,                   \* searchFights: hasCache
    cachedMaxPage,              \* searchFights: cachedMaxPage
    estimatedMaxPages,          \* searchFights: estimatedMaxPages
    fights,                     \* searchFights: sortedFights
    fightIndex,                 \* searchFights: position of the for loop in sortedFights
    allMatches,                 \* searchFights: allMatches
    allRankingsData,            \* searchFights: allRankingsData, one entry per fight
    matchedFight,               \* searchFights: matchedFight, by id
    callbacks,                  \* history: fights progressCallback was called for
    multipleSearchMode,         \* searchFights: multipleSearchMode
    searchReturn,               \* searchFights: "running" or "returned"
    processed,                  \* history: fights the loop got to
    fightsArg,                  \* searchFights: fights, the argument
    fightsWithCache,            \* searchFights: fightsWithCache
    activeTimers,               \* setInterval timers of the FFLogsAPI instance that are live
    display                     \* what the usage display shows: "usage" or "countdown"

cacheVars == <<storage, search_in_progress, initialized, searchStartTime,
               keysAddedInCurrentSearch, sessionWrites, preKeys, orphan>>
rateVars == <<requestHistory, fflogs_request_history>>
apiVars == <<accessToken, rateLimitPerHour, pointsSpent, pointsResetIn, updateInterval,
             isWaiting, controller, pc, signal, requestCount, remainingSeconds>>
matchVars == <<anonymousFightID, absoluteStartTime, duration, fightMatches, verifiedMatches, matchIndex,
               searchPhase, aborted>>
pageVars == <<lastPage, low, high, maxValidPage, probes, probeErrors, pagesPc>>
batchVars == <<batchPc, startPage, pageCount, pages, cachedResults, results, storeIndex,
               worldData, batchCalls, batchReturn, runPhase>>
roundVars == <<roundPc, pageNo, hasMorePages, dynamicBatchSize, retry, attempts, delays,
               failures, hasCache, cachedMaxPage, estimatedMaxPages>>
fightVars == <<fights, fightIndex, allMatches, allRankingsData, matchedFight, callbacks,
               multipleSearchMode, searchReturn, processed, fightsArg, fightsWithCache>>
searchVars == <<batchVars, roundVars, fightVars>>
displayVars == <<activeTimers, display>>
clientVars == <<apiVars, matchVars, pageVars, searchVars, displayVars>>
vars == <<now, cacheVars, rateVars, clientVars, result>>

----
(* Bounds and input sets *)

StartTime == 1000000
MaxTicks == 3
MaxRateTime == 121000
MaxImport == 3
MaxHist == 3

CacheDeltas == {30000}
RateDeltas == {30000, 31000}
Horizon == StartTime + MaxTicks * 30000
RateHorizon == StartTime + MaxRateTime

null == -1

Encounters == {1, 2}
Difficulties == {101}
Sizes == {8}
Regions == {"KR"}
Pages == {1}
Partitions == {"5"}

----
(* Program constants *)

CLEANUP_THRESHOLD_MS == 60000
WINDOW_MS == 120000
MAX_REQUESTS == 240
SAFETY_MARGIN_MS == 1000
MAX_PAGES == 1600
MAX_BATCH_SIZE == 30
MAX_RETRIES == 2
RETRY_DELAY_MS == 2000

----
(* localforage *)

keys(st) == DOMAIN st

getItem(st, key) == IF key \in DOMAIN st THEN st[key] ELSE [null |-> TRUE]

IsNullItem(item) == item = [null |-> TRUE]

setItem(st, key, value) == [k \in DOMAIN st \cup {key} |-> IF k = key THEN value ELSE st[k]]

removeItem(st, key) == [k \in DOMAIN st \ {key} |-> st[k]]

removeItems(st, ks) == [k \in DOMAIN st \ ks |-> st[k]]

----
(* RankingCache *)

\* A region argument that is JS null; "" is the empty string.
NoRegion == "<null>"

\* The key is kept as the parts that the template joins with "_"; no part
\* holds a "_" itself. `${region}` writes a null region as "null".
getCacheKey(encounterId, difficulty, size, region, page, partition) ==
    <<encounterId, difficulty, size, IF region = NoRegion THEN "null" ELSE region, page,
      IF partition = "" THEN "default" ELSE partition>>

AllKeys ==
    {getCacheKey(e, d, s, r, p, q) :
        e \in Encounters, d \in Difficulties, s \in Sizes,
        r \in Regions, p \in Pages, q \in Partitions}

\* The {key, data} pairs an import file can hold.
ImportTimes == {StartTime, StartTime + 30000}
ImportRankings == {<<>>, <<[name |-> "A"]>>}
ImportEntries(times, lists) ==
    {[key |-> getCacheKey(e, d, s, r, p, q),
      data |-> [rankings |-> rk, timestamp |-> t, encounterId |-> e,
                region |-> r, partition |-> q]] :
        e \in Encounters, d \in Difficulties, s \in Sizes, r \in Regions,
        p \in Pages, q \in Partitions, t \in times, rk \in lists}

ImportFiles(n, times, lists) ==
    UNION {[1..m -> ImportEntries(times, lists)] : m \in 0..n}

\* The values data.rankings can take: absent, a non-array, an array.
RankingInputs ==
    {[tag |-> "undefined"], [tag |-> "object"],
     [tag |-> "array", items |-> <<>>],
     [tag |-> "array", items |-> <<[name |-> "A", rank |-> 1]>>]}

\* !data.rankings || !Array.isArray(data.rankings) || data.rankings.length === 0
IsEmptyRankings(rankings) ==
    \/ rankings.tag = "undefined"
    \/ rankings.tag # "array"
    \/ Len(rankings.items) = 0

\* The minimal record set() keeps of one ranking.
minimalRankings(items) == [i \in 1..Len(items) |-> [name |-> items[i].name]]

\* Changes of the history variables that follow from the change of storage.
Touched(k) == getItem(storage, k) # getItem(storage', k)

TrackItems ==
    /\ preKeys' = {k \in preKeys : ~Touched(k)}
    /\ orphan' = [k \in AllKeys |-> IF Touched(k) THEN null ELSE orphan[k]]

\* set without the length test: an empty array is stored.
set_StoresEmptyArray(encounterId, difficulty, size, region, page, partition, data) ==
    IF data.rankings.tag # "array"
    THEN UNCHANGED <<storage, keysAddedInCurrentSearch, sessionWrites>>
    ELSE LET key == getCacheKey(encounterId, difficulty, size, region, page, partition)
             cacheData == [rankings |-> minimalRankings(data.rankings.items),
                           timestamp |-> now,
                           encounterId |-> encounterId,
                           region |-> region,
                           partition |-> partition]
         IN  /\ keysAddedInCurrentSearch' =
                    IF searchStartTime # null
                    THEN keysAddedInCurrentSearch \cup {key}
                    ELSE keysAddedInCurrentSearch
             /\ storage' = setItem(storage, key, cacheData)
             /\ sessionWrites' = sessionWrites \cup {key}

set(encounterId, difficulty, size, region, page, partition, data) ==
    IF IsEmptyRankings(data.rankings)
    THEN UNCHANGED <<storage, keysAddedInCurrentSearch, sessionWrites>>
    ELSE LET key == getCacheKey(encounterId, difficulty, size, region, page, partition)
             cacheData == [rankings |-> minimalRankings(data.rankings.items),
                           timestamp |-> now,
                           encounterId |-> encounterId,
                           region |-> region,
                           partition |-> partition]
         IN  /\ keysAddedInCurrentSearch' =
                    IF searchStartTime # null
                    THEN keysAddedInCurrentSearch \cup {key}
                    ELSE keysAddedInCurrentSearch
             /\ storage' = setItem(storage, key, cacheData)
             /\ sessionWrites' = sessionWrites \cup {key}

\* get(): null on a miss, the cached page otherwise.
get(encounterId, difficulty, size, region, page, partition) ==
    getItem(storage, getCacheKey(encounterId, difficulty, size, region, page, partition))

\* A page fetch: the cache is asked first and only a miss is fetched and stored.
getEncounterRankings(encounterId, difficulty, size, region, page, partition, rankings) ==
    /\ initialized
    /\ IsNullItem(get(encounterId, difficulty, size, region, page, partition))
    /\ set(encounterId, difficulty, size, region, page, partition, [rankings |-> rankings])
    /\ TrackItems
    /\ result' = [op |-> "set",
                  key |-> getCacheKey(encounterId, difficulty, size, region, page, partition),
                  rankings |-> rankings]
    /\ UNCHANGED <<now, search_in_progress, initialized, searchStartTime, rateVars, clientVars>>

\* startSearch that keeps the keys of the session before.
startSearch_KeepsKeys ==
    /\ initialized
    /\ searchStartTime' = now
    /\ search_in_progress' = now
    /\ sessionWrites' = {}
    /\ preKeys' = keys(storage)
    /\ result' = [op |-> "startSearch"]
    /\ UNCHANGED <<now, storage, initialized, keysAddedInCurrentSearch, orphan, rateVars, clientVars>>

startSearch ==
    /\ initialized
    /\ searchStartTime' = now
    /\ keysAddedInCurrentSearch' = {}
    /\ search_in_progress' = now
    /\ sessionWrites' = {}
    /\ preKeys' = keys(storage)
    /\ result' = [op |-> "startSearch"]
    /\ UNCHANGED <<now, storage, initialized, orphan, rateVars, clientVars>>

\* Called by the search run that called startSearch, when it completes.
finishSearch ==
    /\ initialized
    /\ searchStartTime # null
    /\ searchStartTime' = null
    /\ keysAddedInCurrentSearch' = {}
    /\ search_in_progress' = null
    /\ result' = [op |-> "finishSearch"]
    /\ UNCHANGED <<now, storage, initialized, sessionWrites, preKeys, orphan, rateVars, clientVars>>

abortSearch ==
    /\ initialized
    /\ IF searchStartTime = null
       THEN UNCHANGED <<storage, searchStartTime, keysAddedInCurrentSearch,
                        search_in_progress>>
       ELSE /\ storage' = removeItems(storage, keysAddedInCurrentSearch)
            /\ searchStartTime' = null
            /\ keysAddedInCurrentSearch' = {}
            /\ search_in_progress' = null
    /\ TrackItems
    /\ result' = [op |-> "abortSearch", active |-> searchStartTime # null,
                  removed |-> keys(storage) \ keys(storage')]
    /\ UNCHANGED <<now, initialized, sessionWrites, rateVars, clientVars>>

\* cleanup that deletes only what is strictly newer than the marker.
cleanup_StrictlyNewer(st, marker, t) ==
    IF marker = null
    THEN [storage |-> st, marker |-> marker, deletedCount |-> 0]
    ELSE IF t - marker < CLEANUP_THRESHOLD_MS
    THEN [storage |-> st, marker |-> marker, deletedCount |-> 0]
    ELSE LET stale == {k \in keys(st) : st[k].timestamp > marker}
         IN  [storage |-> removeItems(st, stale), marker |-> null,
              deletedCount |-> Cardinality(stale)]

\* cleanup that does not look at the marker's age.
cleanup_NoAgeTest(st, marker, t) ==
    IF marker = null
    THEN [storage |-> st, marker |-> marker, deletedCount |-> 0]
    ELSE LET stale == {k \in keys(st) : st[k].timestamp >= marker}
         IN  [storage |-> removeItems(st, stale), marker |-> null,
              deletedCount |-> Cardinality(stale)]

\* The store after cleanupIncompleteSearches, and the marker after it.
cleanupIncompleteSearches(st, marker, t) ==
    IF marker = null
    THEN [storage |-> st, marker |-> marker, deletedCount |-> 0]
    ELSE IF t - marker < CLEANUP_THRESHOLD_MS
    THEN [storage |-> st, marker |-> marker, deletedCount |-> 0]
    ELSE LET stale == {k \in keys(st) : st[k].timestamp >= marker}
         IN  [storage |-> removeItems(st, stale), marker |-> null,
              deletedCount |-> Cardinality(stale)]

init ==
    /\ ~initialized
    /\ LET c == cleanupIncompleteSearches(storage, search_in_progress, now)
       IN  /\ storage' = c.storage
           /\ search_in_progress' = c.marker
           /\ result' = [op |-> "init", marker |-> search_in_progress,
                         deletedCount |-> c.deletedCount]
    /\ initialized' = TRUE
    /\ TrackItems
    /\ UNCHANGED <<now, searchStartTime, keysAddedInCurrentSearch, sessionWrites, rateVars, clientVars>>

clearEncounter(encounterId, region, partition) ==
    /\ initialized
    /\ LET matches(item) ==
               /\ item.encounterId = encounterId
               /\ (region = "" \/ item.region = region)
               /\ (IF item.partition = "" THEN "default" ELSE item.partition)
                     = (IF partition = "" THEN "default" ELSE partition)
           keysToDelete == {k \in keys(storage) : matches(storage[k])}
       IN  storage' = removeItems(storage, keysToDelete)
    /\ TrackItems
    /\ result' = [op |-> "clearEncounter", encounterId |-> encounterId]
    /\ UNCHANGED <<now, search_in_progress, initialized, searchStartTime,
                   keysAddedInCurrentSearch, sessionWrites, rateVars, clientVars>>

\* `${encounterId}_${difficulty}_${size}_${region || ''}_`
keyPrefix(encounterId, difficulty, size, region) ==
    <<encounterId, difficulty, size, IF region = NoRegion \/ region = "" THEN "" ELSE region>>

\* `_${partition || 'default'}`
partitionSuffix(partition) == IF partition = "" THEN "default" ELSE partition

\* key.startsWith(prefix) && key.endsWith(partitionSuffix), on the parts.
keyMatches(key, prefix, suffix) == SubSeq(key, 1, 4) = prefix /\ key[6] = suffix

hasCacheForFight(store, encounterId, difficulty, size, region, partition) ==
    \E key \in keys(store) :
        keyMatches(key, keyPrefix(encounterId, difficulty, size, region),
                   partitionSuffix(partition))

\* parseInt(parts[parts.length - 2]) of the matching keys, the largest; null
\* when no key matches.
getCachedMaxPage(store, encounterId, difficulty, size, region, partition) ==
    LET found == {key[5] : key \in {k \in keys(store) :
                     keyMatches(k, keyPrefix(encounterId, difficulty, size, region),
                                partitionSuffix(partition))}}
    IN  IF found = {} THEN null ELSE CHOOSE m \in found : \A n \in found : n <= m

\* RankingCache.set called on its own, with a page of one ranking.
store(encounterId, difficulty, size, region, page, partition) ==
    /\ set(encounterId, difficulty, size, region, page, partition,
           [rankings |-> [tag |-> "array", items |-> <<[name |-> "A", rank |-> 1]>>]])
    /\ result' = [op |-> "set",
                  key |-> getCacheKey(encounterId, difficulty, size, region, page, partition)]
    /\ UNCHANGED <<now, search_in_progress, initialized, searchStartTime, preKeys, orphan,
                   rateVars, clientVars>>

\* hasCacheForFight and getCachedMaxPage asked for one coordinate.
lookup(encounterId, difficulty, size, region, partition) ==
    /\ result' = [op |-> "lookup",
                  coordinate |-> <<encounterId, difficulty, size, region, partition>>,
                  hasCache |-> hasCacheForFight(storage, encounterId, difficulty, size, region,
                                                partition),
                  maxPage |-> getCachedMaxPage(storage, encounterId, difficulty, size, region,
                                               partition)]
    /\ UNCHANGED <<now, cacheVars, rateVars, clientVars>>

\* keys() lists the store in key order.
KeyLess(a, b) == a[1] < b[1] \/ (a[1] = b[1] /\ a[5] < b[5])

RECURSIVE SortedKeys(_)
SortedKeys(ks) ==
    IF ks = {} THEN <<>>
    ELSE LET first == CHOOSE k \in ks : \A o \in ks \ {k} : KeyLess(k, o)
         IN  <<first>> \o SortedKeys(ks \ {first})

\* exportCache(): the {key, data} pairs of the store, in key order.
exportCache(st) ==
    LET ks == SortedKeys(keys(st))
    IN  [i \in 1..Len(ks) |-> [key |-> ks[i], data |-> st[ks[i]]]]

\* The loop with >= for >: an equal timestamp overwrites.
RECURSIVE importLoop_NotStrict(_, _, _)
importLoop_NotStrict(importData, i, acc) ==
    IF i > Len(importData) THEN acc
    ELSE LET entry == importData[i]
             existingItem == getItem(acc.storage, entry.key)
         IN  IF IsNullItem(existingItem) \/ entry.data.timestamp >= existingItem.timestamp
             THEN importLoop_NotStrict(importData, i + 1,
                     [storage |-> setItem(acc.storage, entry.key, entry.data),
                      importedCount |-> acc.importedCount + 1,
                      skippedCount |-> acc.skippedCount])
             ELSE importLoop_NotStrict(importData, i + 1,
                     [storage |-> acc.storage,
                      importedCount |-> acc.importedCount,
                      skippedCount |-> acc.skippedCount + 1])

\* The loop that compares with the store as it was before the import.
RECURSIVE importLoop_StaleRead(_, _, _)
importLoop_StaleRead(importData, i, acc) ==
    IF i > Len(importData) THEN acc
    ELSE LET entry == importData[i]
             existingItem == getItem(storage, entry.key)
         IN  IF IsNullItem(existingItem) \/ entry.data.timestamp > existingItem.timestamp
             THEN importLoop_StaleRead(importData, i + 1,
                     [storage |-> setItem(acc.storage, entry.key, entry.data),
                      importedCount |-> acc.importedCount + 1,
                      skippedCount |-> acc.skippedCount])
             ELSE importLoop_StaleRead(importData, i + 1,
                     [storage |-> acc.storage,
                      importedCount |-> acc.importedCount,
                      skippedCount |-> acc.skippedCount + 1])

\* The loop without the comparison: every pair is stored.
RECURSIVE importLoop_Always(_, _, _)
importLoop_Always(importData, i, acc) ==
    IF i > Len(importData) THEN acc
    ELSE LET entry == importData[i]
         IN  importLoop_Always(importData, i + 1,
                 [storage |-> setItem(acc.storage, entry.key, entry.data),
                  importedCount |-> acc.importedCount + 1,
                  skippedCount |-> acc.skippedCount])

\* One pass of the loop of importCache over importData[i..]; acc is
\* [storage, importedCount, skippedCount] so far.
RECURSIVE importLoop(_, _, _)
importLoop(importData, i, acc) ==
    IF i > Len(importData) THEN acc
    ELSE LET entry == importData[i]
             existingItem == getItem(acc.storage, entry.key)
         IN  IF IsNullItem(existingItem) \/ entry.data.timestamp > existingItem.timestamp
             THEN importLoop(importData, i + 1,
                     [storage |-> setItem(acc.storage, entry.key, entry.data),
                      importedCount |-> acc.importedCount + 1,
                      skippedCount |-> acc.skippedCount])
             ELSE importLoop(importData, i + 1,
                     [storage |-> acc.storage,
                      importedCount |-> acc.importedCount,
                      skippedCount |-> acc.skippedCount + 1])

importCache(importData) ==
    /\ initialized
    /\ LET r == importLoop(importData, 1,
                    [storage |-> storage, importedCount |-> 0, skippedCount |-> 0])
       IN  /\ storage' = r.storage
           /\ result' = [op |-> "importCache",
                         data |-> importData,
                         importedCount |-> r.importedCount,
                         skippedCount |-> r.skippedCount,
                         totalCount |-> Len(importData),
                         repeat |-> result.op = "importCache" /\ result.data = importData]
    /\ TrackItems
    /\ UNCHANGED <<now, search_in_progress, initialized, searchStartTime,
                   keysAddedInCurrentSearch, sessionWrites, rateVars, clientVars>>

\* The page is closed or reloaded: the object's fields are lost, the stores are kept.
Reload ==
    /\ initialized
    /\ initialized' = FALSE
    /\ searchStartTime' = null
    /\ keysAddedInCurrentSearch' = {}
    /\ sessionWrites' = {}
    /\ preKeys' = {}
    /\ orphan' = [k \in AllKeys |->
                    IF searchStartTime # null /\ k \in sessionWrites /\ k \in keys(storage)
                    THEN searchStartTime ELSE orphan[k]]
    /\ result' = [op |-> "reload", active |-> searchStartTime # null]
    /\ UNCHANGED <<now, storage, search_in_progress, rateVars, clientVars>>

\* Time passes.
Tick(d, horizon) ==
    /\ now + d <= horizon
    /\ now' = now + d
    /\ result' = [op |-> "tick"]
    /\ UNCHANGED <<cacheVars, rateVars, clientVars>>

----
(* RateLimiter *)

Counts == {2, 3, 5, MAX_REQUESTS - 2}
Needed == {1, MAX_REQUESTS}

Max(a, b) == IF a >= b THEN a ELSE b

\* The sum of the counts of history[lo..hi], by halves: a history of
\* MAX_REQUESTS records is summed with ten nested calls.
RECURSIVE sumCounts(_, _, _)
sumCounts(history, lo, hi) ==
    IF lo > hi THEN 0
    ELSE IF lo = hi THEN history[lo].count
    ELSE LET mid == (lo + hi) \div 2
         IN  sumCounts(history, lo, mid) + sumCounts(history, mid + 1, hi)

\* history.reduce((sum, r) => sum + r.count, 0)
reduceCount(history, i, sum) == sum + sumCounts(history, i, Len(history))

\* history.filter(r => r.timestamp > cutoff)
filterRecent(history, cutoff) ==
    SelectSeq(history, LAMBDA r : r.timestamp > cutoff)

\* loadRequestHistory(): the saved records still inside the window.
loadRequestHistory(saved, t) == filterRecent(saved, t - WINDOW_MS)

\* getRecentRequestCount that keeps the record aged exactly WINDOW_MS.
getRecentRequestCount_Inclusive(history, saved, t) ==
    LET cutoff == t - WINDOW_MS
        filtered == SelectSeq(history, LAMBDA r : r.timestamp >= cutoff)
    IN  [history |-> filtered,
         saved |-> IF Len(history) # Len(filtered) THEN filtered ELSE saved,
         value |-> reduceCount(filtered, 1, 0)]

\* getRecentRequestCount(): the filtered history, what is saved, and the sum.
getRecentRequestCount(history, saved, t) ==
    LET cutoff == t - WINDOW_MS
        filtered == filterRecent(history, cutoff)
    IN  [history |-> filtered,
         saved |-> IF Len(history) # Len(filtered) THEN filtered ELSE saved,
         value |-> reduceCount(filtered, 1, 0)]

getAvailableRequestSlots(history, saved, t) ==
    LET r == getRecentRequestCount(history, saved, t)
    IN  [history |-> r.history, saved |-> r.saved,
         value |-> Max(0, MAX_REQUESTS - r.value)]

\* The loop of getWaitTimeForSlots: the timestamp of the record at which the
\* counts, summed from the oldest on, reach needToFree; null when they never do.
RECURSIVE findTarget(_, _, _, _)
findTarget(history, i, freedCount, needToFree) ==
    IF i > Len(history) THEN null
    ELSE IF freedCount + history[i].count >= needToFree
    THEN history[i].timestamp
    ELSE findTarget(history, i + 1, freedCount + history[i].count, needToFree)

getWaitTimeForSlots(history, saved, t, neededSlots) ==
    IF Len(history) = 0
    THEN [history |-> history, saved |-> saved, value |-> 0]
    ELSE LET a == getAvailableRequestSlots(history, saved, t)
             currentAvailable == a.value
             needToFree == neededSlots - currentAvailable
             targetTimestamp == findTarget(a.history, 1, 0, needToFree)
         IN  [history |-> a.history, saved |-> a.saved,
              value |->
                 IF currentAvailable >= neededSlots THEN 0
                 ELSE IF Len(a.history) = 0
                 THEN null    \* requestHistory[0] is undefined: a TypeError
                 ELSE IF targetTimestamp = null \/ targetTimestamp = 0
                 THEN Max(0, WINDOW_MS - (t - a.history[1].timestamp)) + SAFETY_MARGIN_MS
                 ELSE Max(0, WINDOW_MS - (t - targetTimestamp)) + SAFETY_MARGIN_MS]

\* addRequestRecord that does not save.
addRequestRecord_Unsaved(count) ==
    /\ Len(requestHistory) < MaxHist
    /\ requestHistory' = Append(requestHistory, [timestamp |-> now, count |-> count])
    /\ result' = [op |-> "addRequestRecord"]
    /\ UNCHANGED <<now, fflogs_request_history, cacheVars, clientVars>>

addRequestRecord(count) ==
    /\ Len(requestHistory) < MaxHist
    /\ requestHistory' = Append(requestHistory, [timestamp |-> now, count |-> count])
    /\ fflogs_request_history' = requestHistory'
    /\ result' = [op |-> "addRequestRecord"]
    /\ UNCHANGED <<now, cacheVars, clientVars>>

RecentRequestCount ==
    /\ LET r == getRecentRequestCount(requestHistory, fflogs_request_history, now)
       IN  /\ requestHistory' = r.history
           /\ fflogs_request_history' = r.saved
           /\ result' = [op |-> "getRecentRequestCount", value |-> r.value]
    /\ UNCHANGED <<now, cacheVars, clientVars>>

AvailableRequestSlots ==
    /\ LET r == getAvailableRequestSlots(requestHistory, fflogs_request_history, now)
       IN  /\ requestHistory' = r.history
           /\ fflogs_request_history' = r.saved
           /\ result' = [op |-> "getAvailableRequestSlots", value |-> r.value]
    /\ UNCHANGED <<now, cacheVars, clientVars>>

WaitTimeForSlots(neededSlots) ==
    /\ LET r == getWaitTimeForSlots(requestHistory, fflogs_request_history, now, neededSlots)
       IN  /\ requestHistory' = r.history
           /\ fflogs_request_history' = r.saved
           /\ result' = [op |-> "getWaitTimeForSlots", neededSlots |-> neededSlots,
                         value |-> r.value]
    /\ UNCHANGED <<now, cacheVars, clientVars>>

\* The page is reloaded: the static history is rebuilt from localStorage.
RateReload ==
    /\ requestHistory' = loadRequestHistory(fflogs_request_history, now)
    /\ result' = [op |-> "loadRequestHistory"]
    /\ UNCHANGED <<now, fflogs_request_history, cacheVars, clientVars>>

----
(* FFLogsAPI *)

POINTS_PER_REQUEST == 11    \* 1.1 points; points are counted in tenths

MaxQueryTime == 30000
MaxMatches == 2
MaxRdps == 2
MaxProbeErrors == 1
MaxBatchPages == 3
MaxResults == 2
MaxFailures == 3
MaxReportFights == 3
MaxLookupPage == 2
QueryHorizon == StartTime + MaxQueryTime
QueryDeltas == {30000}
RequestCounts == {1, 30}

\* rateLimitData of a response, in tenths of a point.
RateLimitData ==
    {[limitPerHour |-> 36000, pointsSpentThisHour |-> p, pointsResetIn |-> 1800] :
        p \in {0, 35700, 35995}}

Responses == {"ok", "errors", "http", "network"}

\* The point budget is never known.
getAvailablePointSlots_Untracked(limit, spent) == null

\* null while the server's figures are unknown (or zero), else what is left.
getAvailablePointSlots(limit, spent) ==
    IF limit = null \/ limit = 0 \/ spent = null \/ spent = 0
    THEN null
    ELSE Max(0, limit - spent)

\* Math.ceil(waitTime / 1000)
ceilSeconds(waitTime) == (waitTime + 999) \div 1000

\* stopPeriodicUpdate that leaves the timer running.
stopPeriodicUpdate_Keeps(interval, timers) ==
    [updateInterval |-> interval, activeTimers |-> timers]

\* stopPeriodicUpdate(): clearInterval when a timer is set.
stopPeriodicUpdate(interval, timers) ==
    IF interval THEN [updateInterval |-> FALSE, activeTimers |-> timers - 1]
    ELSE [updateInterval |-> interval, activeTimers |-> timers]

\* startPeriodicUpdate(): setInterval unless a timer is set.
startPeriodicUpdate(interval, timers) ==
    IF interval THEN [updateInterval |-> interval, activeTimers |-> timers]
    ELSE [updateInterval |-> TRUE, activeTimers |-> timers + 1]

\* query() that does not wait for a slot.
queryStart_NoWait(count) ==
    /\ pc = "idle"
    /\ now < QueryHorizon
    /\ controller' = "live"
    /\ LET estimatedPoints == count * POINTS_PER_REQUEST
           availablePoints == getAvailablePointSlots(rateLimitPerHour, pointsSpent)
           a == getAvailableRequestSlots(requestHistory, fflogs_request_history, now)
           w == getWaitTimeForSlots(a.history, a.saved, now, 1)
       IN  IF availablePoints # null /\ availablePoints < estimatedPoints
           THEN /\ result' = [op |-> "query", outcome |-> "quota", requestCount |-> count,
                              sent |-> FALSE, recorded |-> 0]
                /\ UNCHANGED <<rateVars, pc, signal, requestCount, remainingSeconds,
                               isWaiting, updateInterval>>
           ELSE /\ requestHistory' = a.history
                /\ fflogs_request_history' = a.saved
                /\ pc' = "send"
                /\ signal' = "live"
                /\ requestCount' = count
                /\ result' = [op |-> "query", outcome |-> "ready", requestCount |-> count]
                /\ UNCHANGED <<remainingSeconds, isWaiting, updateInterval>>
    /\ UNCHANGED <<matchVars, pageVars, searchVars, displayVars, now, cacheVars, accessToken, rateLimitPerHour, pointsSpent, pointsResetIn>>

\* query() up to its first await: the point check, the slot check, the
\* start of the countdown.
queryStart(count) ==
    /\ pc = "idle"
    /\ now < QueryHorizon
    /\ controller' = "live"
    /\ LET estimatedPoints == count * POINTS_PER_REQUEST
           availablePoints == getAvailablePointSlots(rateLimitPerHour, pointsSpent)
           a == getAvailableRequestSlots(requestHistory, fflogs_request_history, now)
           w == getWaitTimeForSlots(a.history, a.saved, now, 1)
       IN  IF availablePoints # null /\ availablePoints < estimatedPoints
           THEN /\ result' = [op |-> "query", outcome |-> "quota", requestCount |-> count,
                              sent |-> FALSE, recorded |-> 0]
                /\ UNCHANGED <<rateVars, pc, signal, requestCount, remainingSeconds,
                               isWaiting, updateInterval, displayVars>>
           ELSE IF a.value < 1 /\ ceilSeconds(w.value) > 0
           THEN /\ requestHistory' = w.history
                /\ fflogs_request_history' = w.saved
                /\ isWaiting' = TRUE
                /\ updateInterval' = stopPeriodicUpdate(updateInterval, activeTimers).updateInterval
                /\ activeTimers' = stopPeriodicUpdate(updateInterval, activeTimers).activeTimers
                /\ display' = "countdown"
                /\ remainingSeconds' = ceilSeconds(w.value)
                /\ pc' = "countdown"
                /\ signal' = "live"
                /\ requestCount' = count
                /\ result' = [op |-> "query", outcome |-> "waiting", requestCount |-> count,
                              waitTime |-> w.value]
           ELSE /\ requestHistory' = a.history
                /\ fflogs_request_history' = a.saved
                /\ pc' = "send"
                /\ signal' = "live"
                /\ requestCount' = count
                /\ result' = [op |-> "query", outcome |-> "ready", requestCount |-> count]
                /\ UNCHANGED <<remainingSeconds, isWaiting, updateInterval, displayVars>>
    /\ UNCHANGED <<matchVars, pageVars, searchVars, now, cacheVars, accessToken, rateLimitPerHour, pointsSpent, pointsResetIn>>

\* The countdown's one-second timer fires; the loop tests its condition and
\* the signal, then sleeps again or leaves.
countdown ==
    /\ pc = "countdown"
    /\ now' = now + 1000
    /\ remainingSeconds' = remainingSeconds - 1
    /\ IF remainingSeconds - 1 > 0
       THEN IF signal = "aborted"
            THEN /\ isWaiting' = FALSE
                 /\ updateInterval' = startPeriodicUpdate(updateInterval, activeTimers).updateInterval
                 /\ activeTimers' = startPeriodicUpdate(updateInterval, activeTimers).activeTimers
                 /\ display' = "usage"
                 /\ pc' = "idle"
                 /\ signal' = "none"
                 /\ requestCount' = 0
                 /\ result' = [op |-> "query", outcome |-> "cancelled",
                               requestCount |-> requestCount, sent |-> FALSE, recorded |-> 0]
            ELSE /\ result' = [op |-> "query", outcome |-> "waiting",
                               requestCount |-> requestCount, waitTime |-> 0]
                 /\ display' = "countdown"
                 /\ UNCHANGED <<isWaiting, updateInterval, activeTimers, pc, signal,
                                requestCount>>
       ELSE /\ isWaiting' = FALSE
            /\ updateInterval' = startPeriodicUpdate(updateInterval, activeTimers).updateInterval
            /\ activeTimers' = startPeriodicUpdate(updateInterval, activeTimers).activeTimers
            /\ display' = "usage"
            /\ pc' = "send"
            /\ result' = [op |-> "query", outcome |-> "ready", requestCount |-> requestCount]
            /\ UNCHANGED <<signal, requestCount>>
    /\ UNCHANGED <<matchVars, pageVars, searchVars, cacheVars, rateVars, accessToken, rateLimitPerHour, pointsSpent,
                   pointsResetIn, controller>>

\* getAccessToken() and the call of fetch: the token request carries no signal,
\* the GraphQL request is refused when the signal is already aborted.
send ==
    /\ pc = "send"
    /\ \E tokenOk \in (IF accessToken = "none" THEN BOOLEAN ELSE {TRUE}) :
        IF ~tokenOk
        THEN /\ pc' = "idle"
             /\ signal' = "none"
             /\ requestCount' = 0
             /\ result' = [op |-> "query", outcome |-> "auth", requestCount |-> requestCount,
                           sent |-> FALSE, recorded |-> 0]
             /\ UNCHANGED accessToken
        ELSE /\ accessToken' = "token"
             /\ IF signal = "aborted"
                THEN /\ pc' = "idle"
                     /\ signal' = "none"
                     /\ requestCount' = 0
                     /\ result' = [op |-> "query", outcome |-> "AbortError",
                                   requestCount |-> requestCount,
                                   sent |-> FALSE, recorded |-> 0]
                ELSE /\ pc' = "inflight"
                     /\ result' = [op |-> "query", outcome |-> "sent",
                                   requestCount |-> requestCount]
                     /\ UNCHANGED <<signal, requestCount>>
    /\ UNCHANGED <<matchVars, pageVars, searchVars, displayVars, now, cacheVars, rateVars, rateLimitPerHour, pointsSpent, pointsResetIn,
                   updateInterval, isWaiting, controller, remainingSeconds>>

\* respond that records requestCount, the number of pages of the call.
respond_RecordsPages(response) ==
    /\ pc = "inflight"
    /\ LET outcome == IF signal = "aborted" THEN "AbortError" ELSE response
           recorded == IF outcome \in {"ok", "errors"} THEN 1 ELSE 0
       IN  /\ requestHistory' =
                  IF recorded = 1
                  THEN Append(requestHistory, [timestamp |-> now, count |-> requestCount])
                  ELSE requestHistory
           /\ fflogs_request_history' =
                  IF recorded = 1 THEN requestHistory' ELSE fflogs_request_history
           /\ result' = [op |-> "query", outcome |-> outcome, requestCount |-> requestCount,
                         sent |-> TRUE, recorded |-> recorded]
    /\ pc' = "idle"
    /\ signal' = "none"
    /\ requestCount' = 0
    /\ UNCHANGED <<matchVars, pageVars, searchVars, displayVars, now, cacheVars, accessToken, rateLimitPerHour, pointsSpent, pointsResetIn,
                   updateInterval, isWaiting, controller, remainingSeconds>>

\* fetch settles: a 2xx response ("ok"), a 2xx response with GraphQL errors,
\* another status ("http"), a network failure, or the abort of the signal.
respond(response) ==
    /\ pc = "inflight"
    /\ LET outcome == IF signal = "aborted" THEN "AbortError" ELSE response
           recorded == IF outcome \in {"ok", "errors"} THEN 1 ELSE 0
       IN  /\ requestHistory' =
                  IF recorded = 1
                  THEN Append(requestHistory, [timestamp |-> now, count |-> 1])
                  ELSE requestHistory
           /\ fflogs_request_history' =
                  IF recorded = 1 THEN requestHistory' ELSE fflogs_request_history
           /\ result' = [op |-> "query", outcome |-> outcome, requestCount |-> requestCount,
                         sent |-> TRUE, recorded |-> recorded]
    /\ pc' = "idle"
    /\ signal' = "none"
    /\ requestCount' = 0
    /\ UNCHANGED <<matchVars, pageVars, searchVars, displayVars, now, cacheVars, accessToken, rateLimitPerHour, pointsSpent, pointsResetIn,
                   updateInterval, isWaiting, controller, remainingSeconds>>

cancelAll ==
    /\ controller # "none"
    /\ controller' = "none"
    /\ signal' = IF signal = "live" THEN "aborted" ELSE signal
    /\ result' = [op |-> "cancelAll"]
    /\ UNCHANGED <<matchVars, pageVars, searchVars, displayVars, now, cacheVars, rateVars, accessToken, rateLimitPerHour, pointsSpent,
                   pointsResetIn, updateInterval, isWaiting, pc, requestCount,
                   remainingSeconds>>

\* The caller of a query that returned data hands its rateLimitData over.
updateRateLimitInfo(rateLimitData) ==
    /\ pc = "idle"
    /\ result.op = "query"
    /\ result.outcome = "ok"
    /\ rateLimitPerHour' = rateLimitData.limitPerHour
    /\ pointsSpent' = rateLimitData.pointsSpentThisHour
    /\ pointsResetIn' = rateLimitData.pointsResetIn
    /\ display' = IF ~isWaiting THEN "usage" ELSE display
    /\ result' = [op |-> "updateRateLimitInfo"]
    /\ UNCHANGED <<matchVars, pageVars, searchVars, activeTimers, now, cacheVars, rateVars, accessToken, updateInterval, isWaiting,
                   controller, pc, signal, requestCount, remainingSeconds>>

resetUsageTracking ==
    /\ pc = "idle"
    /\ rateLimitPerHour # null
    /\ rateLimitPerHour' = null
    /\ pointsSpent' = null
    /\ pointsResetIn' = null
    /\ result' = [op |-> "resetUsageTracking"]
    /\ UNCHANGED <<matchVars, pageVars, searchVars, displayVars, now, cacheVars, rateVars, accessToken, updateInterval, isWaiting,
                   controller, pc, signal, requestCount, remainingSeconds>>

\* The refresh timer fires: _periodicUpdate.
periodicUpdate ==
    /\ activeTimers > 0
    /\ display' = IF ~isWaiting THEN "usage" ELSE display
    /\ result' = [op |-> "periodicUpdate", refreshed |-> ~isWaiting]
    /\ UNCHANGED <<now, cacheVars, rateVars, apiVars, matchVars, pageVars, searchVars,
                   activeTimers>>

\* Time passes between two requests, or while one is in flight.
QueryPause ==
    /\ pc \in {"idle", "inflight"}
    /\ \E d \in QueryDeltas : Tick(d, QueryHorizon)

----
(* LogMatcher and the candidate loops of searchFights *)

MATCHING_THRESHOLDS ==
    [TIME_DIFF_MS |-> 10000, DURATION_DIFF_MS |-> 5000,
     RDPS_DIFF_RATIO |-> [num |-> 1, den |-> 1000]]     \* 0.001

\* The fights of the anonymized report and the report's start time.
AnonymousFights ==
    {[id |-> 1, startTime |-> 0, endTime |-> 600000],
     [id |-> 2, startTime |-> 650000, endTime |-> 670000]}
ReportStartTimes == {StartTime - 3600000}

\* Candidate rankings are placed relative to the fight being searched.
TimeDeltas == {0, 4999, 5000, -4999, -5000}
DurationDeltas == {0, 9999, 10000, -9999, -10000}
RankingNames == {"Player", "Anonymous"}
ReportCodes == {"r1", "r2"}
ANONYMOUS_NAMES == {"Anonymous", "anonymous"}

Rankings(times, durations, names, codes) ==
    {[name |-> n, startTime |-> absoluteStartTime + t, duration |-> duration + d,
      report |-> [code |-> c, fightID |-> 1]] :
        t \in times, d \in durations, n \in names, c \in codes}

\* What getReportRDPS hands back: it throws, or it returns the table's entries.
Amounts == {0, 999, 1000}
RECURSIVE SeqsUpTo(_, _)
SeqsUpTo(S, n) ==
    IF n = 0 THEN {<<>>}
    ELSE LET shorter == SeqsUpTo(S, n - 1)
         IN  shorter \cup {Append(s, x) : s \in {q \in shorter : Len(q) = n - 1}, x \in S}
RdpsLists == SeqsUpTo({[amount |-> a] : a \in Amounts}, MaxRdps)
RdpsFetches ==
    {[threw |-> TRUE, entries |-> <<>>]} \cup {[threw |-> FALSE, entries |-> l] : l \in RdpsLists}

\* One fetch outcome of each kind, for the verification loop.
VerifyFetches ==
    {[threw |-> TRUE, entries |-> <<>>],
     [threw |-> FALSE, entries |-> <<>>],
     [threw |-> FALSE, entries |-> <<[amount |-> 1000]>>],
     [threw |-> FALSE, entries |-> <<[amount |-> 0]>>],
     [threw |-> FALSE, entries |-> <<[amount |-> 999], [amount |-> 1000]>>]}

Abs(x) == IF x < 0 THEN -x ELSE x

\* new LogMatcher(anonymousFight, reportStartTime, code)
LogMatcher(anonymousFight, reportStartTime) ==
    /\ anonymousFightID = anonymousFight.id
    /\ absoluteStartTime = reportStartTime + anonymousFight.startTime
    /\ duration = anonymousFight.endTime - anonymousFight.startTime

match_NonStrict(ranking) ==
    LET timeDiff == Abs(ranking.startTime - absoluteStartTime)
        durationDiff == Abs(ranking.duration - duration)
    IN  IF timeDiff <= MATCHING_THRESHOLDS.DURATION_DIFF_MS
           /\ durationDiff <= MATCHING_THRESHOLDS.TIME_DIFF_MS
        THEN [matched |-> TRUE, timeDiff |-> timeDiff, durationDiff |-> durationDiff,
              ranking |-> ranking]
        ELSE [matched |-> FALSE]

match(ranking) ==
    LET rankingAbsoluteTime == ranking.startTime
        timeDiff == Abs(rankingAbsoluteTime - absoluteStartTime)
        durationDiff == Abs(ranking.duration - duration)
        timeMatch == timeDiff < MATCHING_THRESHOLDS.DURATION_DIFF_MS
        durationMatch == durationDiff < MATCHING_THRESHOLDS.TIME_DIFF_MS
    IN  IF timeMatch /\ durationMatch
        THEN [matched |-> TRUE, timeDiff |-> timeDiff, durationDiff |-> durationDiff,
              ranking |-> ranking]
        ELSE [matched |-> FALSE]

\* list.map(r => r.amount)
amounts(list) == [i \in DOMAIN list |-> list[i].amount]

\* values.sort((a, b) => b - a), by insertion from the left
RECURSIVE insertDescending(_, _)
insertDescending(sorted, x) ==
    IF sorted = <<>> THEN <<x>>
    ELSE IF x > Head(sorted) THEN <<x>> \o sorted
    ELSE <<Head(sorted)>> \o insertDescending(Tail(sorted), x)

sortDescending_Unsorted(values) == values

RECURSIVE sortDescending(_)
sortDescending(values) ==
    IF values = <<>> THEN <<>>
    ELSE insertDescending(sortDescending(SubSeq(values, 1, Len(values) - 1)),
                          values[Len(values)])

\* diff / anonymousValue > RDPS_DIFF_RATIO in floating point: a positive diff
\* over zero is Infinity, zero over zero is NaN and compares false, and a
\* quotient by a negative value is never positive.
exceedsRatio(diff, anonymousValue) ==
    IF anonymousValue > 0
    THEN diff * MATCHING_THRESHOLDS.RDPS_DIFF_RATIO.den
             > MATCHING_THRESHOLDS.RDPS_DIFF_RATIO.num * anonymousValue
    ELSE IF anonymousValue = 0 THEN diff > 0
    ELSE FALSE

\* The try block of verifyRDPS: threw tells whether control left it by an
\* exception, value is what it returned otherwise.
compareRDPS(anonymousRDPS, publicRDPS) ==
    IF anonymousRDPS.threw THEN [threw |-> TRUE, value |-> FALSE]
    ELSE IF Len(anonymousRDPS.entries) = 0 THEN [threw |-> FALSE, value |-> FALSE]
    ELSE IF publicRDPS.threw THEN [threw |-> TRUE, value |-> FALSE]
    ELSE IF Len(publicRDPS.entries) = 0 THEN [threw |-> FALSE, value |-> FALSE]
    ELSE LET anonymousRDPSValues == sortDescending(amounts(anonymousRDPS.entries))
             publicRDPSValues == sortDescending(amounts(publicRDPS.entries))
         IN  IF Len(anonymousRDPSValues) # Len(publicRDPSValues)
             THEN [threw |-> FALSE, value |-> FALSE]
             ELSE IF \E i \in DOMAIN anonymousRDPSValues :
                        exceedsRatio(Abs(anonymousRDPSValues[i] - publicRDPSValues[i]),
                                     anonymousRDPSValues[i])
             THEN [threw |-> FALSE, value |-> FALSE]
             ELSE [threw |-> FALSE, value |-> TRUE]

verifyRDPS_NoCatch(anonymousRDPS, publicRDPS) == compareRDPS(anonymousRDPS, publicRDPS)

\* verifyRDPS: the try block, and the catch that returns false.
verifyRDPS(anonymousRDPS, publicRDPS) ==
    LET tried == compareRDPS(anonymousRDPS, publicRDPS)
    IN  IF tried.threw THEN [threw |-> FALSE, value |-> FALSE] ELSE tried

\* searchFights, one ranking of a fetched page.
matchRanking(ranking) ==
    /\ searchPhase = "match"
    /\ IF aborted
       THEN /\ searchPhase' = "aborted"
            /\ result' = [op |-> "searchFights", aborted |-> TRUE]
            /\ UNCHANGED fightMatches
       ELSE IF ranking.name \in ANONYMOUS_NAMES
       THEN /\ result' = [op |-> "skip", ranking |-> ranking]
            /\ UNCHANGED <<fightMatches, searchPhase>>
       ELSE LET matched == match(ranking)
            IN  /\ matched.matched => Len(fightMatches) < MaxMatches
                /\ result' = [op |-> "match", ranking |-> ranking, value |-> matched]
                /\ fightMatches' = IF matched.matched THEN Append(fightMatches, matched)
                                   ELSE fightMatches
                /\ UNCHANGED searchPhase
    /\ UNCHANGED <<now, cacheVars, rateVars, apiVars, pageVars, searchVars, displayVars,
                   anonymousFightID, absoluteStartTime, duration,
                   verifiedMatches, matchIndex, aborted>>

\* searchFights, after the last page of the fight.
endPages ==
    /\ searchPhase = "match"
    /\ searchPhase' = IF Len(fightMatches) > 0 THEN "verify" ELSE "nomatch"
    /\ verifiedMatches' = <<>>
    /\ matchIndex' = 1
    /\ result' = [op |-> "endPages"]
    /\ UNCHANGED <<now, cacheVars, rateVars, apiVars, pageVars, searchVars, displayVars,
                   anonymousFightID, absoluteStartTime, duration,
                   fightMatches, aborted>>

\* searchFights, one candidate of the verification loop; the two arguments
\* are what the two getReportRDPS calls of verifyRDPS would produce.
verifyMatch(anonymousRDPS, publicRDPS) ==
    /\ searchPhase = "verify"
    /\ matchIndex <= Len(fightMatches)
    /\ IF aborted
       THEN /\ searchPhase' = "aborted"
            /\ result' = [op |-> "searchFights", aborted |-> TRUE]
            /\ UNCHANGED <<verifiedMatches, matchIndex>>
       ELSE LET isVerified == verifyRDPS(anonymousRDPS, publicRDPS)
            IN  /\ result' = [op |-> "verifyRDPS", anonymousRDPS |-> anonymousRDPS,
                              publicRDPS |-> publicRDPS, threw |-> isVerified.threw,
                              value |-> isVerified.value, candidate |-> matchIndex]
                /\ IF isVerified.threw
                   THEN /\ searchPhase' = "failed"
                        /\ UNCHANGED <<verifiedMatches, matchIndex>>
                   ELSE /\ verifiedMatches' =
                               IF isVerified.value
                               THEN Append(verifiedMatches, fightMatches[matchIndex])
                               ELSE verifiedMatches
                        /\ matchIndex' = matchIndex + 1
                        /\ searchPhase' = IF matchIndex + 1 > Len(fightMatches)
                                          THEN "verified" ELSE "verify"
    /\ UNCHANGED <<now, cacheVars, rateVars, apiVars, pageVars, searchVars, displayVars,
                   anonymousFightID, absoluteStartTime, duration,
                   fightMatches, aborted>>

\* The user presses stop: the search's AbortController aborts.
abort ==
    /\ ~aborted
    /\ searchPhase \in {"match", "verify"}
    /\ aborted' = TRUE
    /\ result' = [op |-> "abort"]
    /\ UNCHANGED <<now, cacheVars, rateVars, apiVars, pageVars, searchVars, displayVars,
                   anonymousFightID, absoluteStartTime, duration,
                   fightMatches, verifiedMatches, matchIndex, searchPhase>>

----
(* findMaxPages *)

\* What a probe (getEncounterRankings of one page) can do: return the page,
\* fail, or fail with the cancellation error of query's countdown.
ProbeOutcomes == {"page", "error", "cancelled"}
LastPages == 0..MAX_PAGES

\* Math.floor((low + high) / 2)
midpoint_Low(lo, hi) == lo

midpoint_High(lo, hi) == hi

midpoint(lo, hi) == (lo + hi) \div 2

\* e.message === '검색이 중단되었습니다.'
rethrows_Always(outcome) == outcome \in {"cancelled", "error"}

rethrows(outcome) == outcome = "cancelled"

\* let low = 1; let high = MAX_PAGES; let maxValidPage = 1
findMaxPages ==
    /\ low = 1
    /\ high = MAX_PAGES
    /\ maxValidPage = 1
    /\ probes = 0
    /\ probeErrors = 0
    /\ pagesPc = "loop"

\* One turn of the loop of findMaxPages.
probe(outcome) ==
    /\ pagesPc = "loop"
    /\ IF aborted
       THEN /\ pagesPc' = "thrown"
            /\ result' = [op |-> "findMaxPages", threw |-> TRUE]
            /\ UNCHANGED <<low, high, maxValidPage, probes, probeErrors>>
       ELSE LET mid == midpoint(low, high)
            IN  /\ probes' = probes + 1
                /\ result' = [op |-> "probe", page |-> mid, outcome |-> outcome]
                /\ IF outcome = "page"
                   THEN /\ IF mid <= lastPage
                           THEN /\ maxValidPage' = mid
                                /\ low' = mid + 1
                                /\ UNCHANGED high
                           ELSE /\ high' = mid - 1
                                /\ UNCHANGED <<low, maxValidPage>>
                        /\ pagesPc' = IF low' <= high' THEN "loop" ELSE "returned"
                        /\ UNCHANGED probeErrors
                   ELSE IF rethrows(outcome)
                   THEN /\ pagesPc' = "thrown"
                        /\ UNCHANGED <<low, high, maxValidPage, probeErrors>>
                   ELSE /\ probeErrors < MaxProbeErrors
                        /\ probeErrors' = probeErrors + 1
                        /\ high' = mid - 1
                        /\ pagesPc' = IF low <= high' THEN "loop" ELSE "returned"
                        /\ UNCHANGED <<low, maxValidPage>>
    /\ UNCHANGED <<now, cacheVars, rateVars, apiVars, matchVars, searchVars, displayVars, lastPage>>

----
(* getEncounterRankingsBatch and the stop button *)

\* The search coordinate of the batches; only the page varies.
BatchKey(page) == getCacheKey(1, 101, 8, "KR", page, "5")
BatchPages == 1..MaxBatchPages
StartPages == {1, 2}
BatchRateLimitData ==
    {[limitPerHour |-> 36000, pointsSpentThisHour |-> 1000, pointsResetIn |-> 1800]}

\* data.worldData[`page${page}`] of a worldData: absent, a page past the end
\* (an empty rankings array), or a page with a ranking.
PageKinds == {"missing", "empty", "full"}
characterRankings(page, kind) ==
    [page |-> page,
     rankings |-> [tag |-> "array",
                   items |-> IF kind = "full" THEN <<[name |-> page, rank |-> 1]>> ELSE <<>>]]

\* The item set() stored for a page fetched before this session.
CachedPage(page) ==
    [rankings |-> <<[name |-> page]>>, timestamp |-> StartTime - 100000,
     encounterId |-> 1, region |-> "KR", partition |-> "5"]

\* The numbers of a set in ascending order.
RECURSIVE Ascending(_)
Ascending(S) ==
    IF S = {} THEN <<>>
    ELSE LET least == CHOOSE x \in S : \A y \in S : x <= y
         IN  <<least>> \o Ascending(S \ {least})

\* allResults.sort((a, b) => a.page - b.page), by insertion from the left
RECURSIVE insertByPage(_, _)
insertByPage(sorted, r) ==
    IF sorted = <<>> THEN <<r>>
    ELSE IF r.page < Head(sorted).page THEN <<r>> \o sorted
    ELSE <<Head(sorted)>> \o insertByPage(Tail(sorted), r)

sortByPage_Unsorted(allResults) == allResults

RECURSIVE sortByPage(_)
sortByPage(allResults) ==
    IF allResults = <<>> THEN <<>>
    ELSE insertByPage(sortByPage(SubSeq(allResults, 1, Len(allResults) - 1)),
                      allResults[Len(allResults)])

\* allResults.map(r => r.data)
mapData(allResults) == [i \in DOMAIN allResults |-> allResults[i].data]

\* The pages of the range that get() misses, in the order of the loop.
uncachedPages_WholeRange(start, count) == Ascending(start..(start + count - 1))

uncachedPages(start, count) ==
    Ascending({p \in start..(start + count - 1) :
                  IsNullItem(get(1, 101, 8, "KR", p, "5"))})

\* getEncounterRankingsBatch up to its call of api.query.
batchStart(start, count) ==
    /\ batchPc = "idle"
    /\ runPhase = "running"
    /\ start + count - 1 <= MaxBatchPages
    /\ LET cached == Ascending({p \in start..(start + count - 1) :
                                   ~IsNullItem(get(1, 101, 8, "KR", p, "5"))})
           missing == uncachedPages(start, count)
       IN  /\ startPage' = start
           /\ pageCount' = count
           /\ pages' = missing
           /\ cachedResults' =
                  [i \in DOMAIN cached |->
                      [page |-> cached[i],
                       data |-> [rankings |-> get(1, 101, 8, "KR", cached[i], "5").rankings]]]
           /\ IF Len(missing) = 0
              THEN /\ batchReturn' = mapData(cachedResults')
                   /\ batchPc' = "returned"
                   /\ UNCHANGED batchCalls
              ELSE /\ batchCalls' = Append(batchCalls, [pages |-> missing, requestCount |-> count])
                   /\ batchPc' = "query"
                   /\ UNCHANGED batchReturn
    /\ result' = [op |-> "getEncounterRankingsBatch", startPage |-> start, pageCount |-> count]
    /\ UNCHANGED <<now, cacheVars, rateVars, apiVars, matchVars, pageVars, roundVars, fightVars, displayVars, results, storeIndex,
                   worldData, runPhase>>

\* api.query throws.
batchFail ==
    /\ batchPc = "query"
    /\ batchPc' = "thrown"
    /\ result' = [op |-> "batchFail"]
    /\ UNCHANGED <<now, cacheVars, rateVars, apiVars, matchVars, pageVars, roundVars, fightVars, displayVars, startPage, pageCount,
                   pages, cachedResults, results, storeIndex, worldData, batchCalls, batchReturn,
                   runPhase>>

\* One turn of the loop that stores the fetched pages, for pages[index] of
\* the response world; after the last page the results are merged, sorted
\* and returned.
storeTurn(world, index, stored) ==
    /\ LET page == pages[index]
           kind == world[page]
           rankings == characterRankings(page, kind)
       IN  IF kind = "missing"
           THEN /\ results' = stored
                /\ UNCHANGED <<storage, keysAddedInCurrentSearch, sessionWrites>>
           ELSE /\ set(1, 101, 8, "KR", page, "5", rankings)
                /\ results' = Append(stored, [page |-> page, data |-> rankings])
    /\ TrackItems
    /\ IF index = Len(pages)
       THEN /\ batchReturn' = mapData(sortByPage(cachedResults \o results'))
            /\ batchPc' = "returned"
            /\ storeIndex' = index
       ELSE /\ storeIndex' = index + 1
            /\ batchPc' = "store"
            /\ UNCHANGED batchReturn

\* api.query returns: the rate limit data is taken over, then the signal is
\* looked at, once; if it is not set the first page is stored without
\* giving way to another task.
batchRespond(data, rateLimitData) ==
    /\ batchPc = "query"
    /\ rateLimitPerHour' = rateLimitData.limitPerHour
    /\ pointsSpent' = rateLimitData.pointsSpentThisHour
    /\ pointsResetIn' = rateLimitData.pointsResetIn
    /\ IF aborted
       THEN /\ batchPc' = "thrown"
            /\ UNCHANGED <<worldData, results, storeIndex, batchReturn, storage,
                           keysAddedInCurrentSearch, sessionWrites, preKeys, orphan>>
       ELSE /\ worldData' = data.worldData
            /\ storeTurn(data.worldData, 1, <<>>)
    /\ result' = [op |-> "batchRespond", cancelled |-> aborted]
    /\ UNCHANGED <<now, search_in_progress, initialized, searchStartTime, rateVars, accessToken,
                   updateInterval, isWaiting, controller, pc, signal, requestCount,
                   remainingSeconds, matchVars, pageVars, roundVars, fightVars, displayVars, startPage, pageCount, pages,
                   cachedResults, batchCalls, runPhase>>

\* The storing loop goes on after the await of the page before.
batchStore ==
    /\ batchPc = "store"
    /\ storeTurn(worldData, storeIndex, results)
    /\ result' = [op |-> "batchStore", page |-> pages[storeIndex], wasAborted |-> aborted]
    /\ UNCHANGED <<now, search_in_progress, initialized, searchStartTime, rateVars, apiVars,
                   matchVars, pageVars, roundVars, fightVars, displayVars, startPage, pageCount, pages, cachedResults, worldData,
                   batchCalls, runPhase>>

\* stopSearch: handleSearchAbort aborts the controller and calls
\* rankingCache.abortSearch().
stopSearch ==
    /\ ~aborted
    /\ runPhase = "running"
    /\ aborted' = TRUE
    /\ IF searchStartTime = null
       THEN UNCHANGED <<storage, searchStartTime, keysAddedInCurrentSearch,
                        search_in_progress>>
       ELSE /\ storage' = removeItems(storage, keysAddedInCurrentSearch)
            /\ searchStartTime' = null
            /\ keysAddedInCurrentSearch' = {}
            /\ search_in_progress' = null
    /\ TrackItems
    /\ result' = [op |-> "stopSearch"]
    /\ UNCHANGED <<now, initialized, sessionWrites, rateVars, apiVars, pageVars, batchVars, fightVars, displayVars, roundVars, fightVars,
                   anonymousFightID, absoluteStartTime, duration, fightMatches, verifiedMatches,
                   matchIndex, searchPhase>>

\* startSearch's end of the run: a run whose signal is set ends as
\* cancelled and calls abortSearch; a run that threw otherwise shows the
\* error; a completed run calls finishSearch.
endRun ==
    /\ batchPc \in {"returned", "thrown"}
    /\ runPhase = "running"
    /\ IF aborted
       THEN /\ runPhase' = "cancelled"
            /\ IF searchStartTime = null
               THEN UNCHANGED <<storage, searchStartTime, keysAddedInCurrentSearch,
                                search_in_progress>>
               ELSE /\ storage' = removeItems(storage, keysAddedInCurrentSearch)
                    /\ searchStartTime' = null
                    /\ keysAddedInCurrentSearch' = {}
                    /\ search_in_progress' = null
       ELSE IF batchPc = "thrown"
       THEN /\ runPhase' = "failed"
            /\ UNCHANGED <<storage, searchStartTime, keysAddedInCurrentSearch,
                           search_in_progress>>
       ELSE /\ runPhase' = "finished"
            /\ searchStartTime' = null
            /\ keysAddedInCurrentSearch' = {}
            /\ search_in_progress' = null
            /\ UNCHANGED storage
    /\ TrackItems
    /\ result' = [op |-> "endRun"]
    /\ UNCHANGED <<now, initialized, sessionWrites, rateVars, apiVars, matchVars, pageVars, roundVars, fightVars, displayVars,
                   batchPc, startPage, pageCount, pages, cachedResults, results, storeIndex,
                   worldData, batchCalls, batchReturn>>

----
----
(* searchFights: the pagination loop of one fight *)

\* What the search knows of the fight's pages: with cached pages the
\* largest cached page, otherwise what findMaxPages returned.
\* The point budget is a decimal number and it sizes the batches, so the
\* page the loop is at and the batch size are kept in tenths, as the points
\* are: Whole(n) is n whole pages.
Whole(n) == n * 10

\* The pages a call of the batch goes through for a pageCount in tenths:
\* for (let i = 0; i < pageCount; i++) page = startPage + i
turnsOf(count) == (count + 9) \div 10

PageKnowledge ==
    {[hasCache |-> FALSE, cachedMaxPage |-> null, estimatedMaxPages |-> n] : n \in {1, 31, 1600}}
        \cup {[hasCache |-> TRUE, cachedMaxPage |-> 31, estimatedMaxPages |-> 31]}

\* rateLimitData as the server reports it, in tenths of a point: nothing
\* left, twenty points left.
RoundRateLimitData ==
    {[limitPerHour |-> 36000, pointsSpentThisHour |-> s, pointsResetIn |-> 1800] :
        s \in {36000, 35800}}

\* What the client knows of the budget when the loop starts: the above, or
\* 20.6 points left (pointsSpentThisHour is a decimal number).
RoundStartBudgets ==
    RoundRateLimitData
        \cup {[limitPerHour |-> 36000, pointsSpentThisHour |-> 35794, pointsResetIn |-> 1800]}

\* One page result of a batch: a ranking page with its continuation flag,
\* or something without a rankings array.
PageResults ==
    {[valid |-> TRUE, hasMorePages |-> TRUE], [valid |-> TRUE, hasMorePages |-> FALSE],
     [valid |-> FALSE, hasMorePages |-> TRUE]}

\* How a call of getEncounterRankingsBatch ends.
BatchOutcomes == {"ok", "error", "quota", "cancelled"}

MinOf(S) == CHOOSE x \in S : \A y \in S : x <= y

\* api.getAvailablePointSlots(), in tenths of a point.
availablePointsNow == getAvailablePointSlots(rateLimitPerHour, pointsSpent)

\* Math.min(MAX_BATCH_SIZE, availablePoints || 999, remainingPages,
\*          estimatedMaxPages ? estimatedMaxPages - page + 1 : 999)
\* in tenths: availablePoints, remainingPages and p are tenths, estimated
\* is a number of whole pages.
batchSizeFor(availablePoints, remainingPages, estimated, p) ==
    MinOf({Whole(MAX_BATCH_SIZE),
           IF availablePoints = null \/ availablePoints = 0 THEN Whole(999)
           ELSE availablePoints,
           remainingPages,
           IF estimated # 0 THEN Whole(estimated) - p + Whole(1) ELSE Whole(999)})

\* retry < MAX_RETRIES
mayRetry_Always(r) == TRUE

mayRetry(r) == r < MAX_RETRIES

\* hasMorePages after the loop over batchResults: a result without a
\* rankings array sets it to false and ends the loop; the last result of
\* the batch sets it to its flag.
RECURSIVE continuation_AnyPage(_, _, _)
continuation_AnyPage(batchResults, i, more) ==
    IF i > Len(batchResults) THEN more
    ELSE IF ~batchResults[i].valid THEN FALSE
    ELSE continuation_AnyPage(batchResults, i + 1,
             IF i = 1 THEN batchResults[i].hasMorePages
             ELSE more /\ batchResults[i].hasMorePages)

RECURSIVE continuation(_, _, _)
continuation(batchResults, i, more) ==
    IF i > Len(batchResults) THEN more
    ELSE IF ~batchResults[i].valid THEN FALSE
    ELSE continuation(batchResults, i + 1,
             IF i = Len(batchResults) THEN batchResults[i].hasMorePages ELSE more)

\* let page = 1; let hasMorePages = true
startPages(knowledge) ==
    /\ hasCache = knowledge.hasCache
    /\ cachedMaxPage = knowledge.cachedMaxPage
    /\ estimatedMaxPages = knowledge.estimatedMaxPages
    /\ pageNo = Whole(1)
    /\ hasMorePages = TRUE
    /\ dynamicBatchSize = 0
    /\ retry = 0
    /\ attempts = 0
    /\ delays = 0
    /\ failures = 0
    /\ roundPc = "top"

\* The head of the while loop, down to the first attempt of the batch.
sizeBatch ==
    /\ roundPc = "top"
    /\ LET maxPage == IF hasCache /\ cachedMaxPage # null THEN cachedMaxPage
                      ELSE estimatedMaxPages
           remainingPages == IF maxPage # 0 THEN Whole(maxPage) - pageNo + Whole(1)
                             ELSE Whole(999)
           size == batchSizeFor(availablePointsNow, remainingPages, estimatedMaxPages, pageNo)
       IN  /\ result' = [op |-> "sizeBatch", availablePoints |-> availablePointsNow,
                         remainingPages |-> remainingPages, size |-> size]
           /\ IF ~(hasMorePages /\ pageNo <= Whole(MAX_PAGES))
              THEN roundPc' = "done" /\ UNCHANGED dynamicBatchSize
              ELSE IF aborted
              THEN roundPc' = "aborted" /\ UNCHANGED dynamicBatchSize
              ELSE IF hasCache /\ cachedMaxPage # null /\ pageNo > Whole(cachedMaxPage)
              THEN roundPc' = "done" /\ UNCHANGED dynamicBatchSize
              ELSE IF size <= 0
              THEN roundPc' = "done" /\ dynamicBatchSize' = size
              ELSE roundPc' = "batch" /\ dynamicBatchSize' = size
    /\ retry' = 0
    /\ attempts' = 0
    /\ delays' = 0
    /\ UNCHANGED <<now, cacheVars, rateVars, apiVars, matchVars, pageVars, batchVars, fightVars, displayVars, pageNo,
                   hasMorePages, failures, hasCache, cachedMaxPage, estimatedMaxPages>>

\* One call of getEncounterRankingsBatch in the retry loop, with what
\* follows it: on success the results are gone through and the page
\* advances; on failure the retry is decided.
batchAttempt(outcome, batchResults, rateLimitData) ==
    /\ roundPc = "batch"
    /\ attempts' = attempts + 1
    /\ result' = [op |-> "batchAttempt", outcome |-> outcome, batchResults |-> batchResults,
                  pageNo |-> pageNo, size |-> dynamicBatchSize]
    /\ IF outcome = "ok"
       THEN /\ Len(batchResults) <= turnsOf(dynamicBatchSize)
            /\ rateLimitPerHour' = rateLimitData.limitPerHour
            /\ pointsSpent' = rateLimitData.pointsSpentThisHour
            /\ pointsResetIn' = rateLimitData.pointsResetIn
            /\ IF aborted /\ batchResults # <<>> /\ batchResults[1].valid
               THEN /\ roundPc' = "aborted"
                    /\ UNCHANGED <<hasMorePages, pageNo>>
               ELSE /\ hasMorePages' = continuation(batchResults, 1, hasMorePages)
                    /\ pageNo' = pageNo + dynamicBatchSize
                    /\ roundPc' = "top"
            /\ UNCHANGED <<failures, retry>>
       ELSE /\ batchResults = <<>>
            /\ failures < MaxFailures
            /\ failures' = failures + 1
            /\ IF mayRetry(retry) THEN roundPc' = "delay" ELSE roundPc' = "fatal"
            /\ UNCHANGED <<rateLimitPerHour, pointsSpent, pointsResetIn, hasMorePages, pageNo,
                           retry>>
    /\ UNCHANGED <<now, cacheVars, rateVars, accessToken, updateInterval, isWaiting, controller,
                   pc, signal, requestCount, remainingSeconds, matchVars, pageVars, batchVars, fightVars, displayVars,
                   dynamicBatchSize, delays, hasCache, cachedMaxPage, estimatedMaxPages>>

\* The wait before the next attempt is over.
retryDelay ==
    /\ roundPc = "delay"
    /\ now' = now + RETRY_DELAY_MS
    /\ delays' = delays + 1
    /\ IF aborted
       THEN roundPc' = "aborted" /\ UNCHANGED retry
       ELSE /\ retry' = retry + 1
            /\ roundPc' = IF retry + 1 <= MAX_RETRIES THEN "batch" ELSE "crashed"
    /\ result' = [op |-> "retryDelay"]
    /\ UNCHANGED <<cacheVars, rateVars, apiVars, matchVars, pageVars, batchVars, fightVars, displayVars, pageNo,
                   hasMorePages, dynamicBatchSize, attempts, failures, hasCache, cachedMaxPage,
                   estimatedMaxPages>>

\* The user presses stop while the fight's pages are fetched.
abortRound ==
    /\ ~aborted
    /\ roundPc \in {"top", "batch", "delay"}
    /\ aborted' = TRUE
    /\ result' = [op |-> "abort"]
    /\ UNCHANGED <<now, cacheVars, rateVars, apiVars, pageVars, searchVars, displayVars, anonymousFightID,
                   absoluteStartTime, duration, fightMatches, verifiedMatches, matchIndex,
                   searchPhase>>

----
(* searchFights: the loop over the fights *)

\* The fights in the order searchFights goes through them.
FightLists ==
    {s \in SeqsUpTo(AnonymousFights, Cardinality(AnonymousFights)) :
        Len(s) > 0 /\ \A i, j \in DOMAIN s : i # j => s[i].id # s[j].id}

\* One fetch that verifyRDPS accepts against itself, and one it does not.
FightFetches ==
    {[threw |-> FALSE, entries |-> <<[amount |-> 1000]>>],
     [threw |-> FALSE, entries |-> <<[amount |-> 0]>>]}

fightIds(list) == [i \in DOMAIN list |-> list[i].id]

\* The matches of a fight as they stand in allMatches, with fightId.
withFight(matches, fightId) ==
    [i \in DOMAIN matches |-> [fightId |-> fightId, match |-> matches[i]]]

\* allMatches.push(...verifiedMatches)
contribution_Unverified == fightMatches

contribution == verifiedMatches

\* if (!multipleSearchMode) return
returnsAtFirstMatch_Never == FALSE

returnsAtFirstMatch == ~multipleSearchMode

\* The head of the loop over sortedFights, down to new LogMatcher.
beginFight(reportStartTime) ==
    /\ searchReturn = "running"
    /\ searchPhase = "next"
    /\ fightIndex <= Len(fights)
    /\ IF aborted
       THEN /\ searchPhase' = "aborted"
            /\ result' = [op |-> "searchFights", aborted |-> TRUE]
            /\ UNCHANGED <<anonymousFightID, absoluteStartTime, duration, processed>>
       ELSE LET fight == fights[fightIndex]
            IN  /\ anonymousFightID' = fight.id
                /\ absoluteStartTime' = reportStartTime + fight.startTime
                /\ duration' = fight.endTime - fight.startTime
                /\ processed' = Append(processed, fight.id)
                /\ searchPhase' = "match"
                /\ result' = [op |-> "beginFight", fight |-> fight.id]
    /\ fightMatches' = <<>>
    /\ verifiedMatches' = <<>>
    /\ matchIndex' = 1
    /\ UNCHANGED <<now, cacheVars, rateVars, apiVars, pageVars, batchVars, roundVars,
                   displayVars, aborted,
                   fights, fightIndex, allMatches, allRankingsData, matchedFight, callbacks,
                   multipleSearchMode, searchReturn, fightsArg, fightsWithCache>>

\* The end of a fight: what it adds to the result, the progress callback,
\* and the return or the step to the next fight.
endFight ==
    /\ searchReturn = "running"
    /\ searchPhase \in {"verified", "nomatch"}
    /\ LET fight == fights[fightIndex]
           yields == searchPhase = "verified" /\ Len(verifiedMatches) > 0
           last == fightIndex + 1 > Len(fights)
       IN  /\ allMatches' = IF yields THEN allMatches \o withFight(contribution, fight.id)
                            ELSE allMatches
           /\ allRankingsData' = IF yields THEN Append(allRankingsData, fight.id)
                                 ELSE allRankingsData
           /\ matchedFight' = IF yields /\ matchedFight = null THEN fight.id ELSE matchedFight
           /\ callbacks' = IF yields /\ multipleSearchMode THEN Append(callbacks, fight.id)
                           ELSE callbacks
           /\ result' = [op |-> "endFight", fight |-> fight.id,
                         heuristic |-> Len(fightMatches), verified |-> Len(verifiedMatches)]
           /\ IF yields /\ returnsAtFirstMatch
              THEN /\ searchReturn' = "returned"
                   /\ searchPhase' = "done"
                   /\ UNCHANGED fightIndex
              ELSE /\ fightIndex' = fightIndex + 1
                   /\ searchReturn' = IF last THEN "returned" ELSE "running"
                   /\ searchPhase' = IF last THEN "done" ELSE "next"
    /\ UNCHANGED <<now, cacheVars, rateVars, apiVars, pageVars, batchVars, roundVars,
                   displayVars, anonymousFightID, absoluteStartTime, duration, fightMatches, verifiedMatches,
                   matchIndex, aborted, fights, multipleSearchMode, processed, fightsArg,
                   fightsWithCache>>

\* The user presses stop while searchFights waits between two fights.
stopBetweenFights ==
    /\ ~aborted
    /\ searchReturn = "running"
    /\ searchPhase = "next"
    /\ aborted' = TRUE
    /\ result' = [op |-> "abort"]
    /\ UNCHANGED <<now, cacheVars, rateVars, apiVars, pageVars, searchVars, displayVars, anonymousFightID,
                   absoluteStartTime, duration, fightMatches, verifiedMatches, matchIndex,
                   searchPhase>>

----
(* searchFights: cached fights first *)

\* The fights of a report as searchFights gets them, each with the
\* encounter whose rankings it is searched in.
ReportFights == {[id |-> i, encounterID |-> e] : i \in 1..MaxReportFights, e \in Encounters}

FightArgs ==
    {s \in SeqsUpTo(ReportFights, MaxReportFights) :
        Len(s) > 0 /\ \A i, j \in DOMAIN s : i # j => s[i].id # s[j].id}

\* The pages an earlier search left in the cache, for a set of encounters.
CachedEncounters(es) ==
    [k \in {getCacheKey(e, 101, 8, "KR", 1, "5") : e \in es} |->
        [rankings |-> <<[name |-> "A"]>>, timestamp |-> StartTime - 100000,
         encounterId |-> k[1], region |-> "KR", partition |-> "5"]]

\* The cache check of the loop, answered from the list made before the loop.
fightHasCache_AtSort(st, fight) == \E i \in DOMAIN fightsWithCache : fightsWithCache[i] = fight

\* rankingCache.hasCacheForFight(fight.encounterID, fight.difficulty,
\*                               fight.size, region, partition)
fightHasCache(st, fight) == hasCacheForFight(st, fight.encounterID, 101, 8, "KR", "5")

\* The loop that fills fightsWithCache and fightsWithoutCache, and
\* sortedFights made of the two.
sortFights ==
    /\ searchReturn = "running"
    /\ searchPhase = "sort"
    /\ LET Cached(f) == fightHasCache(storage, f)
           Uncached(f) == ~fightHasCache(storage, f)
       IN  /\ fightsWithCache' = SelectSeq(fightsArg, Cached)
           /\ fights' = SelectSeq(fightsArg, Cached) \o SelectSeq(fightsArg, Uncached)
    /\ searchPhase' = "next"
    /\ result' = [op |-> "sortFights"]
    /\ UNCHANGED <<now, cacheVars, rateVars, apiVars, pageVars, batchVars, roundVars,
                   displayVars, anonymousFightID, absoluteStartTime, duration, fightMatches,
                   verifiedMatches, matchIndex, aborted, fightIndex, allMatches,
                   allRankingsData, matchedFight, callbacks, multipleSearchMode, searchReturn,
                   processed, fightsArg>>

\* The head of the loop over sortedFights, down to the max page: the cache
\* is asked again, and findMaxPages is called for a fight without cache;
\* estimate is what findMaxPages returns.
fightHead(estimate) ==
    /\ searchReturn = "running"
    /\ searchPhase = "next"
    /\ fightIndex <= Len(fights)
    /\ IF aborted
       THEN /\ searchPhase' = "aborted"
            /\ searchReturn' = "returned"
            /\ result' = [op |-> "searchFights", aborted |-> TRUE]
            /\ UNCHANGED <<hasCache, cachedMaxPage, estimatedMaxPages, processed>>
       ELSE LET fight == fights[fightIndex]
                has == fightHasCache(storage, fight)
                maxPage == getCachedMaxPage(storage, fight.encounterID, 101, 8, "KR", "5")
            IN  /\ hasCache' = has
                /\ cachedMaxPage' = IF has THEN maxPage ELSE null
                /\ estimatedMaxPages' = IF has THEN maxPage ELSE estimate
                /\ processed' = Append(processed, fight.id)
                /\ searchPhase' = "pages"
                /\ result' = [op |-> "fightHead", fight |-> fight, findMaxPages |-> ~has]
                /\ UNCHANGED searchReturn
    /\ UNCHANGED <<now, cacheVars, rateVars, apiVars, pageVars, batchVars, displayVars,
                   anonymousFightID, absoluteStartTime, duration, fightMatches,
                   verifiedMatches, matchIndex, aborted, roundPc, pageNo, hasMorePages,
                   dynamicBatchSize, retry, attempts, delays, failures, fights, fightIndex,
                   allMatches, allRankingsData, matchedFight, callbacks, multipleSearchMode,
                   fightsArg, fightsWithCache>>

\* The rest of the fight: the pages of a fight without cache are fetched
\* and page 1 goes through rankingCache.set (kind is what the server
\* returned for it), a fight with cache reads its cached pages; then the
\* fight ends, with a verified match or without.
fightPages(kind, matched) ==
    /\ searchReturn = "running"
    /\ searchPhase = "pages"
    /\ LET fight == fights[fightIndex]
           last == fightIndex + 1 > Len(fights)
       IN  /\ IF hasCache
              THEN UNCHANGED <<storage, keysAddedInCurrentSearch, sessionWrites>>
              ELSE set(fight.encounterID, 101, 8, "KR", 1, "5", characterRankings(1, kind))
           /\ result' = [op |-> "fightPages", fight |-> fight, matched |-> matched]
           /\ IF matched /\ returnsAtFirstMatch
              THEN /\ searchReturn' = "returned"
                   /\ searchPhase' = "done"
                   /\ UNCHANGED fightIndex
              ELSE /\ fightIndex' = fightIndex + 1
                   /\ searchReturn' = IF last THEN "returned" ELSE "running"
                   /\ searchPhase' = IF last THEN "done" ELSE "next"
    /\ UNCHANGED <<now, search_in_progress, initialized, searchStartTime, preKeys, orphan,
                   rateVars, apiVars, pageVars, batchVars, roundVars, displayVars,
                   anonymousFightID, absoluteStartTime, duration, fightMatches,
                   verifiedMatches, matchIndex, aborted, fights, allMatches, allRankingsData,
                   matchedFight, callbacks, multipleSearchMode, processed, fightsArg,
                   fightsWithCache>>

CacheInit ==
    /\ storage = <<>>
    /\ search_in_progress = null
    /\ initialized = FALSE
    /\ searchStartTime = null
    /\ keysAddedInCurrentSearch = {}
    /\ sessionWrites = {}
    /\ preKeys = {}
    /\ orphan = [k \in AllKeys |-> null]

RateInit ==
    /\ requestHistory = <<>>
    /\ fflogs_request_history = <<>>

ApiInit ==
    /\ accessToken = "none"
    /\ rateLimitPerHour = null
    /\ pointsSpent = null
    /\ pointsResetIn = null
    /\ updateInterval = TRUE
    /\ isWaiting = FALSE
    /\ activeTimers = 1
    /\ display = "usage"
    /\ controller = "none"
    /\ pc = "idle"
    /\ signal = "none"
    /\ requestCount = 0
    /\ remainingSeconds = 0

\* No search is running: no matcher, no candidates.
MatchInit ==
    /\ anonymousFightID = 0
    /\ absoluteStartTime = 0
    /\ duration = 0
    /\ fightMatches = <<>>
    /\ verifiedMatches = <<>>
    /\ matchIndex = 1
    /\ searchPhase = "match"
    /\ aborted = FALSE

\* No batch is running and no search run has started.
BatchIdle ==
    /\ batchPc = "idle"
    /\ startPage = 1
    /\ pageCount = 0
    /\ pages = <<>>
    /\ cachedResults = <<>>
    /\ results = <<>>
    /\ storeIndex = 1
    /\ worldData = <<>>
    /\ batchCalls = <<>>
    /\ batchReturn = <<>>
    /\ runPhase = "idle"

\* No fight is being paged through.
RoundIdle ==
    /\ roundPc = "done"
    /\ pageNo = Whole(1)
    /\ hasMorePages = TRUE
    /\ dynamicBatchSize = 0
    /\ retry = 0
    /\ attempts = 0
    /\ delays = 0
    /\ failures = 0
    /\ hasCache = FALSE
    /\ cachedMaxPage = null
    /\ estimatedMaxPages = 0

\* searchFights has no fights to go through.
FightsIdle ==
    /\ fights = <<>>
    /\ fightIndex = 1
    /\ allMatches = <<>>
    /\ allRankingsData = <<>>
    /\ matchedFight = null
    /\ callbacks = <<>>
    /\ multipleSearchMode = FALSE
    /\ searchReturn = "returned"
    /\ processed = <<>>
    /\ fightsArg = <<>>
    /\ fightsWithCache = <<>>

\* No page search is running.
PagesIdle ==
    /\ lastPage = 0
    /\ low = 1
    /\ high = 0
    /\ maxValidPage = 1
    /\ probes = 0
    /\ probeErrors = 0
    /\ pagesPc = "returned"

Init ==
    /\ now = StartTime
    /\ result = [op |-> "none"]
    /\ CacheInit
    /\ RateInit
    /\ ApiInit
    /\ BatchIdle
    /\ RoundIdle
    /\ FightsIdle
    /\ MatchInit
    /\ PagesIdle

\* A page load that finds the history of the page session before in
\* localStorage: a burst 90 s ago and a burst 30 s ago, after a request
\* that has left the window.
Burst(n, t) == [i \in 1..n |-> [timestamp |-> t, count |-> 1]]

SavedHistories ==
    {Burst(1, StartTime - 130000) \o Burst(b[1], StartTime - 90000)
                                  \o Burst(b[2], StartTime - 30000) :
        b \in {<<0, 238>>, <<0, 240>>, <<120, 119>>, <<120, 120>>, <<239, 1>>}}

QueryInit ==
    /\ now = StartTime
    /\ result = [op |-> "none"]
    /\ CacheInit
    /\ fflogs_request_history \in SavedHistories
    /\ requestHistory = loadRequestHistory(fflogs_request_history, now)
    /\ ApiInit
    /\ BatchIdle
    /\ RoundIdle
    /\ FightsIdle
    /\ MatchInit
    /\ PagesIdle

Fetch ==
    \E e \in Encounters, d \in Difficulties, s \in Sizes, r \in Regions,
       p \in Pages, q \in Partitions, rk \in RankingInputs :
        getEncounterRankings(e, d, s, r, p, q, rk)

Clear == \E e \in Encounters, r \in Regions \cup {""}, q \in Partitions :
            clearEncounter(e, r, q)

Next ==
    \/ init
    \/ Fetch
    \/ startSearch
    \/ finishSearch
    \/ abortSearch
    \/ Clear
    \/ \E f \in ImportFiles(1, {StartTime + 30000}, ImportRankings) : importCache(f)
    \/ Reload
    \/ \E d \in CacheDeltas : Tick(d, Horizon)

Spec == Init /\ [][Next]_vars

\* The coordinates looked up: with and without a region, with and without
\* a partition.
LookupRegions == {"KR", NoRegion}
LookupPartitions == {"5", ""}
LookupPages == 1..MaxLookupPage

LookupNext ==
    \/ \E r \in LookupRegions, p \in LookupPages, q \in LookupPartitions :
           store(1, 101, 8, r, p, q)
    \/ \E r \in LookupRegions, q \in LookupPartitions : lookup(1, 101, 8, r, q)

LookupSpec == Init /\ [][LookupNext]_vars

\* Import and export alone, with longer files.
ImportNext ==
    \/ init
    \/ \E f \in ImportFiles(MaxImport, ImportTimes, {<<[name |-> "A"]>>}) : importCache(f)
    \/ importCache(exportCache(storage))

ImportSpec == Init /\ [][ImportNext]_vars

\* The request tracker alone.
RateNext ==
    \/ \E c \in Counts : addRequestRecord(c)
    \/ RecentRequestCount
    \/ AvailableRequestSlots
    \/ \E n \in Needed : WaitTimeForSlots(n)
    \/ RateReload
    \/ \E d \in RateDeltas : Tick(d, RateHorizon)

RateSpec == Init /\ [][RateNext]_vars

\* A search with its matcher built, no candidate seen yet.
SearchInit ==
    /\ now = StartTime
    /\ result = [op |-> "none"]
    /\ CacheInit
    /\ RateInit
    /\ ApiInit
    /\ BatchIdle
    /\ RoundIdle
    /\ FightsIdle
    /\ PagesIdle
    /\ \E f \in AnonymousFights, t \in ReportStartTimes : LogMatcher(f, t)
    /\ fightMatches = <<>>
    /\ verifiedMatches = <<>>
    /\ matchIndex = 1
    /\ searchPhase = "match"
    /\ aborted = FALSE

\* The matching loop over candidates around every threshold.
MatchNext ==
    \/ \E r \in Rankings(TimeDeltas, DurationDeltas, RankingNames, {"r1"}) : matchRanking(r)
    \/ endPages
    \/ abort

MatchSpec == SearchInit /\ [][MatchNext]_vars

\* The verification loop over candidates that match exactly.
VerifyNext ==
    \/ \E r \in Rankings({0}, {0}, {"Player"}, ReportCodes) : matchRanking(r)
    \/ endPages
    \/ \E a \in VerifyFetches, p \in VerifyFetches : verifyMatch(a, p)
    \/ abort

VerifySpec == SearchInit /\ [][VerifyNext]_vars

\* One candidate that matched exactly, about to be verified.
RdpsInit ==
    /\ now = StartTime
    /\ result = [op |-> "none"]
    /\ CacheInit
    /\ RateInit
    /\ ApiInit
    /\ BatchIdle
    /\ RoundIdle
    /\ FightsIdle
    /\ PagesIdle
    /\ \E f \in AnonymousFights, t \in ReportStartTimes : LogMatcher(f, t)
    /\ \E r \in Rankings({0}, {0}, {"Player"}, {"r1"}) : fightMatches = <<match(r)>>
    /\ verifiedMatches = <<>>
    /\ matchIndex = 1
    /\ searchPhase = "verify"
    /\ aborted = FALSE

\* verifyRDPS over every pair of fetched lists.
RdpsNext ==
    \/ \E a \in RdpsFetches, p \in RdpsFetches : verifyMatch(a, p)
    \/ abort

RdpsSpec == RdpsInit /\ [][RdpsNext]_vars

\* findMaxPages called on a ranking whose pages 1..lastPage are non-empty.
PagesInit ==
    /\ now = StartTime
    /\ result = [op |-> "none"]
    /\ CacheInit
    /\ RateInit
    /\ ApiInit
    /\ BatchIdle
    /\ RoundIdle
    /\ FightsIdle
    /\ MatchInit
    /\ lastPage \in LastPages
    /\ findMaxPages

PagesNext ==
    \/ \E o \in ProbeOutcomes : probe(o)
    \/ abort

PagesSpec == PagesInit /\ [][PagesNext]_vars

\* A search run that has called startSearch, with some pages of the
\* coordinate cached by earlier runs, about to fetch batches.
BatchInit ==
    /\ now = StartTime
    /\ result = [op |-> "none"]
    /\ \E cached \in SUBSET BatchPages :
           /\ storage = [k \in {BatchKey(p) : p \in cached} |-> CachedPage(k[5])]
           /\ preKeys = {BatchKey(p) : p \in cached}
    /\ search_in_progress = StartTime
    /\ initialized = TRUE
    /\ searchStartTime = StartTime
    /\ keysAddedInCurrentSearch = {}
    /\ sessionWrites = {}
    /\ orphan = [k \in AllKeys |-> null]
    /\ RateInit
    /\ accessToken = "none"
    /\ rateLimitPerHour = null
    /\ pointsSpent = null
    /\ pointsResetIn = null
    /\ updateInterval = TRUE
    /\ isWaiting = FALSE
    /\ activeTimers = 1
    /\ display = "usage"
    /\ controller = "none"
    /\ pc = "idle"
    /\ signal = "none"
    /\ requestCount = 0
    /\ remainingSeconds = 0
    /\ MatchInit
    /\ PagesIdle
    /\ batchPc = "idle"
    /\ startPage = 1
    /\ pageCount = 0
    /\ pages = <<>>
    /\ cachedResults = <<>>
    /\ results = <<>>
    /\ storeIndex = 1
    /\ worldData = <<>>
    /\ batchCalls = <<>>
    /\ batchReturn = <<>>
    /\ runPhase = "running"
    /\ RoundIdle
    /\ FightsIdle

BatchNext ==
    \/ \E start \in StartPages, count \in BatchPages : batchStart(start, count)
    \/ batchFail
    \/ \E w \in [BatchPages -> PageKinds], d \in BatchRateLimitData :
           batchRespond([worldData |-> w], d)
    \/ batchStore
    \/ stopSearch
    \/ endRun

BatchSpec == BatchInit /\ [][BatchNext]_vars

\* The page loop of one fight, from its first round; the point budget is
\* unknown or is what an earlier response reported.
RoundInit ==
    /\ now = StartTime
    /\ result = [op |-> "none"]
    /\ CacheInit
    /\ RateInit
    /\ accessToken = "none"
    /\ \/ rateLimitPerHour = null /\ pointsSpent = null /\ pointsResetIn = null
       \/ \E d \in RoundStartBudgets :
              /\ rateLimitPerHour = d.limitPerHour
              /\ pointsSpent = d.pointsSpentThisHour
              /\ pointsResetIn = d.pointsResetIn
    /\ updateInterval = TRUE
    /\ isWaiting = FALSE
    /\ activeTimers = 1
    /\ display = "usage"
    /\ controller = "none"
    /\ pc = "idle"
    /\ signal = "none"
    /\ requestCount = 0
    /\ remainingSeconds = 0
    /\ MatchInit
    /\ PagesIdle
    /\ BatchIdle
    /\ \E k \in PageKnowledge : startPages(k)
    /\ FightsIdle

RoundNext ==
    \/ sizeBatch
    \/ \E o \in BatchOutcomes, b \in SeqsUpTo(PageResults, MaxResults), d \in RoundRateLimitData :
           batchAttempt(o, b, d)
    \/ retryDelay
    \/ abortRound

RoundSpec == RoundInit /\ [][RoundNext]_vars

\* searchFights at the head of its loop, in either mode.
FightsInit ==
    /\ now = StartTime
    /\ result = [op |-> "none"]
    /\ CacheInit
    /\ RateInit
    /\ ApiInit
    /\ BatchIdle
    /\ RoundIdle
    /\ PagesIdle
    /\ anonymousFightID = 0
    /\ absoluteStartTime = 0
    /\ duration = 0
    /\ fightMatches = <<>>
    /\ verifiedMatches = <<>>
    /\ matchIndex = 1
    /\ searchPhase = "next"
    /\ aborted = FALSE
    /\ fights \in FightLists
    /\ fightIndex = 1
    /\ allMatches = <<>>
    /\ allRankingsData = <<>>
    /\ matchedFight = null
    /\ callbacks = <<>>
    /\ multipleSearchMode \in BOOLEAN
    /\ searchReturn = "running"
    /\ processed = <<>>
    /\ fightsArg = fights
    /\ fightsWithCache = <<>>

FightsNext ==
    \/ \E t \in ReportStartTimes : beginFight(t)
    \/ \E r \in Rankings({0, 5000}, {0}, {"Player"}, ReportCodes) : matchRanking(r)
    \/ endPages
    \/ \E a \in FightFetches, p \in FightFetches : verifyMatch(a, p)
    \/ endFight
    \/ abort
    \/ stopBetweenFights

FightsSpec == FightsInit /\ [][FightsNext]_vars

\* searchFights is called with a session open and the pages of some
\* encounters in the cache.
OrderInit ==
    /\ now = StartTime
    /\ result = [op |-> "none"]
    /\ \E es \in SUBSET Encounters :
           /\ storage = CachedEncounters(es)
           /\ preKeys = DOMAIN CachedEncounters(es)
    /\ search_in_progress = StartTime
    /\ initialized = TRUE
    /\ searchStartTime = StartTime
    /\ keysAddedInCurrentSearch = {}
    /\ sessionWrites = {}
    /\ orphan = [k \in AllKeys |-> null]
    /\ RateInit
    /\ ApiInit
    /\ BatchIdle
    /\ RoundIdle
    /\ PagesIdle
    /\ anonymousFightID = 0
    /\ absoluteStartTime = 0
    /\ duration = 0
    /\ fightMatches = <<>>
    /\ verifiedMatches = <<>>
    /\ matchIndex = 1
    /\ searchPhase = "sort"
    /\ aborted = FALSE
    /\ fightsArg \in FightArgs
    /\ fights = <<>>
    /\ fightsWithCache = <<>>
    /\ fightIndex = 1
    /\ allMatches = <<>>
    /\ allRankingsData = <<>>
    /\ matchedFight = null
    /\ callbacks = <<>>
    /\ multipleSearchMode \in BOOLEAN
    /\ searchReturn = "running"
    /\ processed = <<>>

OrderNext ==
    \/ sortFights
    \/ \E n \in {1, 31} : fightHead(n)
    \/ \E kind \in {"empty", "full"}, matched \in BOOLEAN : fightPages(kind, matched)
    \/ stopBetweenFights

OrderSpec == OrderInit /\ [][OrderNext]_vars

\* FFLogsAPI.query, one call at a time.
QueryNext ==
    \/ \E c \in RequestCounts : queryStart(c)
    \/ countdown
    \/ send
    \/ \E r \in Responses : respond(r)
    \/ cancelAll
    \/ \E d \in RateLimitData : updateRateLimitInfo(d)
    \/ resetUsageTracking
    \/ QueryPause

QuerySpec == QueryInit /\ [][QueryNext]_vars

\* The same calls with the refresh timer firing in between.
WaitNext ==
    \/ QueryNext
    \/ periodicUpdate

WaitSpec == QueryInit /\ [][WaitNext]_vars

----
(* Properties of the cache, checked under Spec *)

\* C1: a call of set whose data.rankings is missing, is not an array or is an
\* empty array changes nothing: the store holds the same keys and values as
\* before, and no key is added to the keys tracked for the current search.
C1_SetEmptyIsNoOp ==
    [][(/\ result'.op = "set"
        /\ (result'.rankings.tag # "array" \/ result'.rankings.items = <<>>))
       => /\ storage' = storage
          /\ keysAddedInCurrentSearch' = keysAddedInCurrentSearch]_vars

C1_Witness ==
    /\ result.op = "set"
    /\ result.rankings.tag = "array"
    /\ result.rankings.items = <<>>
    /\ searchStartTime # null
    /\ keys(storage) # {}
    /\ result.key \notin keys(storage)

\* C2: in every reachable state no stored item has an empty rankings list.
C2_NoEmptyEntryStored ==
    \A k \in keys(storage) : Len(storage[k].rankings) > 0

\* C3: abortSearch of an active session removes every key set stored since
\* its startSearch and no other key; every item that was in the store at
\* startSearch and was not touched since is still there with the same value.
C3_AbortRemovesSessionKeysOnly ==
    [][(/\ result'.op = "abortSearch"
        /\ searchStartTime # null)
       => /\ \A k \in sessionWrites : k \notin keys(storage')
          /\ \A k \in AllKeys \ sessionWrites :
                getItem(storage', k) = getItem(storage, k)
          /\ \A k \in preKeys :
                k \in keys(storage') /\ storage'[k] = storage[k]]_vars

C3_Witness ==
    /\ result.op = "abortSearch"
    /\ result.removed # {}
    /\ preKeys # {}
    /\ preKeys \subseteq keys(storage)

\* C4: cleanupIncompleteSearches at startup with a marker aged 60 s or more
\* deletes every item with timestamp >= marker, keeps every item with
\* timestamp < marker unchanged, and removes the marker.
C4_StaleMarkerCleanup ==
    [][(/\ result'.op = "init"
        /\ ~initialized
        /\ search_in_progress # null
        /\ now - search_in_progress >= 60000)
       => /\ \A k \in keys(storage) :
                IF storage[k].timestamp >= search_in_progress
                THEN k \notin keys(storage')
                ELSE k \in keys(storage') /\ storage'[k] = storage[k]
          /\ keys(storage') \subseteq keys(storage)
          /\ search_in_progress' = null]_vars

C4_Witness ==
    /\ result.op = "init"
    /\ result.marker # null
    /\ now - result.marker >= 60000
    /\ result.deletedCount > 0
    /\ \E k \in keys(storage) : storage[k].timestamp < result.marker

\* C5: cleanupIncompleteSearches with a marker younger than 60 s, or with no
\* marker, deletes nothing.
C5_YoungMarkerKeepsAll ==
    [][(/\ result'.op = "init"
        /\ ~initialized
        /\ (search_in_progress = null \/ now - search_in_progress < 60000))
       => storage' = storage]_vars

C5_Witness ==
    /\ result.op = "init"
    /\ result.marker # null
    /\ now - result.marker < 60000
    /\ \E k \in keys(storage) : storage[k].timestamp >= result.marker

\* C6: every key written by a session that ended with the page being closed
\* (no finishSearch, no abortSearch) is gone after any startup that happens
\* 60 s or more after that session's start, whatever restarts and searches
\* came in between.
C6_DeadSessionKeysErased ==
    [][(/\ result'.op = "init"
        /\ ~initialized)
       => \A k \in AllKeys :
             (orphan[k] # null /\ now - orphan[k] >= 60000)
                => k \notin keys(storage')]_vars

----
(* Properties of import, checked under ImportSpec *)

\* The timestamps importCache has met under data[i].key when it reaches
\* pair i: the stored one, and those of the earlier pairs of the file.
MetBefore(st, data, i) ==
    (IF data[i].key \in keys(st) THEN {st[data[i].key].timestamp} ELSE {})
        \cup {data[j].data.timestamp : j \in {j \in 1..(i - 1) : data[j].key = data[i].key}}

\* Pair i is to be stored: nothing is under its key, or it is strictly newer.
Overwrites(st, data, i) ==
    \A t \in MetBefore(st, data, i) : data[i].data.timestamp > t

\* C7: an import of the file that was imported just before leaves the store
\* unchanged and reports every pair as skipped; so does an import of the
\* store's own export.
C7_ImportIdempotent ==
    [][(/\ result'.op = "importCache"
        /\ \/ (result.op = "importCache" /\ result.data = result'.data)
           \/ result'.data = exportCache(storage))
       => /\ storage' = storage
          /\ result'.importedCount = 0
          /\ result'.skippedCount = result'.totalCount]_vars

C7_Witness ==
    /\ result.op = "importCache"
    /\ result.repeat
    /\ Len(result.data) = 2
    /\ result.skippedCount = 2
    /\ \A i \in 1..2 : result.data[i].key \in keys(storage)
    /\ \E i \in 1..2 : storage[result.data[i].key] = result.data[i].data

\* C8: importCache stores a pair only when nothing is stored under its key or
\* its timestamp is strictly greater than the stored one; every other pair is
\* skipped and counted; importedCount + skippedCount is the number of pairs.
C8_ImportNewerOnly ==
    [][result'.op = "importCache"
       => LET data == result'.data
              stored == {i \in 1..Len(data) : Overwrites(storage, data, i)}
          IN  /\ result'.importedCount = Cardinality(stored)
              /\ result'.skippedCount = Len(data) - Cardinality(stored)
              /\ result'.importedCount + result'.skippedCount = result'.totalCount
              /\ result'.totalCount = Len(data)
              /\ \A k \in AllKeys :
                    LET mine == {i \in stored : data[i].key = k}
                    IN  IF mine = {}
                        THEN getItem(storage', k) = getItem(storage, k)
                        ELSE storage'[k] = data[CHOOSE i \in mine : \A j \in mine : j <= i].data]_vars

C8_Witness ==
    /\ result.op = "importCache"
    /\ result.importedCount = 1
    /\ result.skippedCount = 1
    /\ result.data[1].key = result.data[2].key
    /\ result.data[1].data.timestamp = result.data[2].data.timestamp
    /\ storage[result.data[1].key] = result.data[1].data

\* The timestamps that meet under key k in an import of data into st: the
\* stored one and those of every pair of the file with that key.
TimestampsFor(st, data, k) ==
    (IF k \in keys(st) THEN {st[k].timestamp} ELSE {})
        \cup {data[i].data.timestamp : i \in {i \in 1..Len(data) : data[i].key = k}}

\* C38: importCache deletes no key and lowers no timestamp: every key stored
\* before is stored after, and the timestamp under each key after the import
\* is the greatest of the one stored before and those of the file's pairs
\* for that key, also when the file holds the key several times.
C38_ImportKeepsNewest ==
    [][result'.op = "importCache"
       => \A k \in AllKeys :
             LET ts == TimestampsFor(storage, result'.data, k)
             IN  /\ k \in keys(storage) => k \in keys(storage')
                 /\ ts # {} => /\ k \in keys(storage')
                               /\ \A t \in ts : storage'[k].timestamp >= t
                               /\ storage'[k].timestamp \in ts]_vars

C38_Witness ==
    /\ result.op = "importCache"
    /\ Len(result.data) = 2
    /\ result.data[1].key = result.data[2].key
    /\ result.data[1].data.timestamp > result.data[2].data.timestamp
    /\ result.importedCount = 1
    /\ result.skippedCount = 1
    /\ storage[result.data[1].key].timestamp = result.data[1].data.timestamp

----
(* Properties of the request tracker, checked under RateSpec *)

\* The sum of the counts of the records of history that are younger than
\* WINDOW_MS at time t.
RECURSIVE UsageAt(_, _)
UsageAt(history, t) ==
    IF history = <<>> THEN 0
    ELSE (IF t - Head(history).timestamp < WINDOW_MS THEN Head(history).count ELSE 0)
            + UsageAt(Tail(history), t)

\* Counts 3, 5, 2 recorded at q - 121 s, q - 91 s, q - 31 s.
Scenario359(history, q) ==
    /\ Len(history) = 3
    /\ history[1] = [timestamp |-> q - 121000, count |-> 3]
    /\ history[2] = [timestamp |-> q - 91000, count |-> 5]
    /\ history[3] = [timestamp |-> q - 31000, count |-> 2]

\* C9 (as stated): after counts 3, 5, 2 at t, t+30s, t+90s, the query at
\* t+121s returns 2.
C9_ScenarioReturns2 ==
    [][(/\ result'.op = "getRecentRequestCount"
        /\ Scenario359(requestHistory, now))
       => result'.value = 2]_vars

\* C9 (amended): getRecentRequestCount returns the sum of the counts of the
\* records younger than WINDOW_MS at the query time; after counts 3, 5, 2 at
\* t, t+30s, t+90s the query at t+121s returns 7: only the first has expired.
C9_RecentUsage ==
    [][result'.op = "getRecentRequestCount"
       => /\ result'.value = UsageAt(requestHistory, now)
          /\ Scenario359(requestHistory, now) => result'.value = 7]_vars

C9_Witness ==
    /\ result.op = "getRecentRequestCount"
    /\ result.value = 7
    /\ now = StartTime + 121000
    /\ requestHistory = <<[timestamp |-> StartTime + 30000, count |-> 5],
                          [timestamp |-> StartTime + 90000, count |-> 2]>>

\* C10: getWaitTimeForSlots(n), n <= MAX_REQUESTS, returns 0 when n slots are
\* available; otherwise a wait w >= SAFETY_MARGIN_MS after which, with no
\* record added, n slots are available.
C10_WaitFreesSlots ==
    [][(/\ result'.op = "getWaitTimeForSlots"
        /\ result'.neededSlots <= MAX_REQUESTS)
       => LET n == result'.neededSlots
              w == result'.value
              free(t) == Max(0, MAX_REQUESTS - UsageAt(requestHistory, t))
          IN  IF free(now) >= n
              THEN w = 0
              ELSE w >= SAFETY_MARGIN_MS /\ free(now + w) >= n]_vars

----
(* Properties of FFLogsAPI.query, checked under QuerySpec *)

\* The sum of the counts of the records of history stamped in (t - WINDOW_MS, t].
WindowUsage(history, t) ==
    LET inWindow == SelectSeq(history,
                        LAMBDA r : r.timestamp > t - WINDOW_MS /\ r.timestamp <= t)
    IN  sumCounts(inWindow, 1, Len(inWindow))

\* No window that ends at a record holds more than MAX_REQUESTS.
WindowsWithinLimit(history) ==
    \A t \in {history[i].timestamp : i \in 1..Len(history)} :
        WindowUsage(history, t) <= MAX_REQUESTS

\* C11: with queries made one at a time, a request is sent only when at least
\* one slot is available at that moment, and in every state the usage
\* recorded in any window of WINDOW_MS is at most MAX_REQUESTS.
C11_SendsOnlyWithSlot ==
    [][/\ (pc = "send" /\ pc' = "inflight")
            => MAX_REQUESTS - WindowUsage(requestHistory, now) >= 1
       /\ WindowsWithinLimit(requestHistory)
       /\ WindowsWithinLimit(requestHistory')]_vars

C11_Witness ==
    /\ result.op = "query"
    /\ result.outcome = "ok"
    /\ now >= StartTime + 31000
    /\ Len(requestHistory) = MAX_REQUESTS + 1
    /\ requestHistory[MAX_REQUESTS + 1].timestamp = now
    /\ WindowUsage(requestHistory, now) <= MAX_REQUESTS

\* C12: a query called while the remaining point budget is known and smaller
\* than requestCount * POINTS_PER_REQUEST fails with the quota error at once:
\* nothing is sent, no record is appended, no countdown is entered.
C12_QuotaFailsFast ==
    [][(/\ pc = "idle"
        /\ result'.op = "query"
        /\ rateLimitPerHour # null
        /\ pointsSpent # null
        /\ rateLimitPerHour - pointsSpent < result'.requestCount * POINTS_PER_REQUEST)
       => /\ result'.outcome = "quota"
          /\ ~result'.sent
          /\ pc' = "idle"
          /\ requestHistory' = requestHistory
          /\ fflogs_request_history' = fflogs_request_history
          /\ isWaiting' = FALSE
          /\ updateInterval' = updateInterval
          /\ now' = now]_vars

C12_Witness ==
    /\ result.op = "query"
    /\ result.outcome = "quota"
    /\ result.requestCount = 30
    /\ rateLimitPerHour - pointsSpent >= POINTS_PER_REQUEST
    /\ pc = "idle"

C14_EverySentRequestRecorded ==
    [][(/\ pc = "inflight"
        /\ result'.op = "query"
        /\ result'.outcome \in {"ok", "errors", "http"})
       => Len(requestHistory') = Len(requestHistory) + 1]_vars

\* C15: once the signal is aborted during the countdown, the countdown's next
\* step ends the query with the cancellation error, nothing being sent,
\* isWaiting false and the refresh timer set.
C15_CancelEndsCountdown ==
    [][(/\ pc = "countdown"
        /\ signal = "aborted")
       => /\ result'.op = "query"
          /\ result'.outcome = "cancelled"
          /\ ~result'.sent
          /\ pc' = "idle"
          /\ isWaiting' = FALSE
          /\ updateInterval' = TRUE]_vars

----
(* Properties of LogMatcher, checked under MatchSpec, VerifySpec and RdpsSpec *)

\* C16: match declares a match exactly when the candidate's start time is
\* less than 5000 ms from the fight's absolute start and its duration less
\* than 10000 ms from the fight's duration, both strictly: identical time and
\* duration always match, a time delta of 5000 or more never matches, a
\* duration delta of 10000 or more never matches.
C16_MatchThresholds ==
    [][result'.op = "match" =>
          LET timeDelta == Abs(result'.ranking.startTime - absoluteStartTime)
              durationDelta == Abs(result'.ranking.duration - duration)
              matched == result'.value.matched
          IN  /\ matched = (timeDelta < 5000 /\ durationDelta < 10000)
              /\ (timeDelta = 0 /\ durationDelta = 0) => matched
              /\ timeDelta >= 5000 => ~matched
              /\ durationDelta >= 10000 => ~matched]_vars

C16_Witness ==
    /\ result.op = "match"
    /\ result.value.matched
    /\ result.value.timeDiff = 4999
    /\ result.value.durationDiff = 9999
    /\ Len(fightMatches) > 0

\* The k-th largest of a list of numbers, counted with repetitions.
NthLargest(values, k) ==
    CHOOSE x \in {values[i] : i \in DOMAIN values} :
        /\ Cardinality({i \in DOMAIN values : values[i] > x}) < k
        /\ k <= Cardinality({i \in DOMAIN values : values[i] >= x})

\* The public value is within 0.1% of the anonymized value.
WithinTolerance(anonymousValue, publicValue) ==
    Abs(anonymousValue - publicValue) * 1000 <= anonymousValue

\* Both lists were fetched, are non-empty and of one length, and agree rank by rank.
ListsAgree(anonymousRDPS, publicRDPS) ==
    /\ ~anonymousRDPS.threw /\ ~publicRDPS.threw
    /\ Len(anonymousRDPS.entries) > 0
    /\ Len(publicRDPS.entries) = Len(anonymousRDPS.entries)
    /\ \A k \in 1..Len(anonymousRDPS.entries) :
           WithinTolerance(NthLargest(amounts(anonymousRDPS.entries), k),
                           NthLargest(amounts(publicRDPS.entries), k))

\* C17: verifyRDPS never throws: when a fetch fails or returns an empty
\* list, or the lists mismatch, it returns false, the candidate is not
\* added to the verified ones, and the loop goes on to the next candidate.
C17_VerifyNeverThrows ==
    [][(result'.op = "verifyRDPS" /\ result' # result) =>
          /\ ~result'.threw
          /\ searchPhase' # "failed"
          /\ matchIndex' = matchIndex + 1
          /\ ~ListsAgree(result'.anonymousRDPS, result'.publicRDPS) =>
                 /\ result'.value = FALSE
                 /\ verifiedMatches' = verifiedMatches]_vars

C17_Witness ==
    /\ result.op = "verifyRDPS"
    /\ result.publicRDPS.threw
    /\ ~result.anonymousRDPS.threw
    /\ Len(result.anonymousRDPS.entries) > 0
    /\ result.value = FALSE
    /\ matchIndex = 2
    /\ searchPhase = "verify"

Permute(list, f) == [i \in DOMAIN list |-> list[f[i]]]

\* C18: verifyRDPS returns true only if both lists are non-empty, of the
\* same length and, sorted descending, pairwise within the relative
\* tolerance of the anonymized value; and the answer is the same for every
\* order in which the entries of either list arrive.
C18_TrueOnlyIfListsAgree ==
    result.op = "verifyRDPS" =>
        LET a == result.anonymousRDPS
            p == result.publicRDPS
        IN  /\ result.value => ListsAgree(a, p)
            /\ \A f \in Permutations(DOMAIN a.entries), g \in Permutations(DOMAIN p.entries) :
                   verifyRDPS([a EXCEPT !.entries = Permute(a.entries, f)],
                              [p EXCEPT !.entries = Permute(p.entries, g)]).value
                       = result.value

C18_Witness ==
    /\ result.op = "verifyRDPS"
    /\ result.value = TRUE
    /\ amounts(result.anonymousRDPS.entries) = <<999, 1000>>
    /\ amounts(result.publicRDPS.entries) = <<1000, 999>>
    /\ verifiedMatches # <<>>

----
(* Properties of findMaxPages, checked under PagesSpec *)

\* C19: when exactly the pages 1..K are non-empty, 1 <= K <= MAX_PAGES, and
\* no probe fails, findMaxPages returns K after at most 11 probes.
C19_FindsLastPage ==
    (pagesPc = "returned" /\ probeErrors = 0 /\ lastPage >= 1 /\ lastPage <= 1600) =>
        /\ maxValidPage = lastPage
        /\ probes <= 11

C19_Witness ==
    /\ pagesPc = "returned"
    /\ probeErrors = 0
    /\ lastPage = 47
    /\ maxValidPage = 47
    /\ probes > 0

\* C20: a probe that fails with an error other than the cancellation error
\* narrows the search exactly as an empty page does and is not thrown to the
\* caller; findMaxPages throws only when the signal is set before a probe or
\* a probe raises the cancellation error, and it probes no further.
C20_ProbeErrorsNarrow ==
    [][/\ (probes' = probes + 1 /\ result'.outcome = "error") =>
              /\ pagesPc' # "thrown"
              /\ high' = ((low + high) \div 2) - 1
              /\ low' = low
              /\ maxValidPage' = maxValidPage
       /\ (pagesPc = "loop" /\ pagesPc' = "thrown") =>
              \/ aborted /\ probes' = probes
              \/ probes' = probes + 1 /\ result'.outcome = "cancelled"
       /\ (pagesPc = "loop" /\ aborted) => (pagesPc' = "thrown" /\ probes' = probes)
       /\ pagesPc = "thrown" => (pagesPc' = "thrown" /\ probes' = probes)]_vars

C20_Witness ==
    /\ result.op = "probe"
    /\ result.outcome = "error"
    /\ pagesPc = "loop"
    /\ probeErrors = 1
    /\ high < lastPage

----
(* Properties of getEncounterRankingsBatch and of stopping, checked under BatchSpec *)

\* The page a returned item is about: the response carries it, a cached
\* item is known by the player it lists.
PageOf(data) == IF "page" \in DOMAIN data THEN data.page ELSE data.rankings[1].name

\* The pages of the batch's range that were not cached when it started.
UncachedAtStart == {p \in startPage..(startPage + pageCount - 1) : BatchKey(p) \notin preKeys}

\* C21: a batch over a page range reads every cached page of the range from
\* the cache and calls the network at most once, for exactly the uncached
\* pages; it makes no call when no page is missing; what it returns is in
\* ascending page order.
C21_OneCallForMissingPages ==
    batchPc # "idle" =>
        /\ Len(batchCalls) <= 1
        /\ UncachedAtStart = {} <=> batchCalls = <<>>
        /\ batchCalls # <<>> =>
               /\ {batchCalls[1].pages[i] : i \in DOMAIN batchCalls[1].pages} = UncachedAtStart
               /\ Len(batchCalls[1].pages) = Cardinality(UncachedAtStart)
        /\ {cachedResults[i].page : i \in DOMAIN cachedResults}
               = (startPage..(startPage + pageCount - 1)) \ UncachedAtStart
        /\ \A i \in DOMAIN cachedResults :
               cachedResults[i].data.rankings = CachedPage(cachedResults[i].page).rankings
        /\ batchPc = "returned" =>
               /\ \A i, j \in DOMAIN batchReturn :
                      i < j => PageOf(batchReturn[i]) < PageOf(batchReturn[j])
               /\ \A i \in DOMAIN cachedResults :
                      \E j \in DOMAIN batchReturn : batchReturn[j] = cachedResults[i].data

C21_Witness ==
    /\ batchPc = "returned"
    /\ startPage = 1
    /\ pageCount = 3
    /\ Len(batchCalls) = 1
    /\ batchCalls[1].pages = <<1, 3>>
    /\ Len(cachedResults) = 1
    /\ Len(batchReturn) = 3

\* C25: once the search's signal is set, no page is written to the store,
\* wherever the stop falls in a batch, the storing loop included.
C25_NoWriteAfterSignal ==
    [][aborted => \A k \in keys(storage') : k \in keys(storage) /\ storage'[k] = storage[k]]_vars

\* C26: when a run ends as cancelled, the store holds no key written during
\* its session and 'search_in_progress' is removed.
C26_CancelRollsBack ==
    runPhase = "cancelled" =>
        /\ keys(storage) \cap sessionWrites = {}
        /\ search_in_progress = null

\* C29: the request count a batch passes to api.query, which query
\* multiplies into the estimated points, is the number of pages the call
\* requests over the network.
C29_CostIsPagesRequested ==
    \A i \in DOMAIN batchCalls : batchCalls[i].requestCount = Len(batchCalls[i].pages)

\* C36: a run that opened a cache session has closed it when it ends, be it
\* by completion, by cancellation or by a fetch error: searchStartTime is
\* null and 'search_in_progress' is absent.
C36_SessionClosedAtEnd ==
    runPhase \in {"finished", "cancelled", "failed"} =>
        /\ searchStartTime = null
        /\ search_in_progress = null

----
(* Properties of the page loop of searchFights, checked under RoundSpec *)

\* The max page the loop goes by: the largest cached page when the fight
\* has cached pages, otherwise the estimate.
KnownMaxPage ==
    IF hasCache /\ cachedMaxPage # null THEN cachedMaxPage ELSE estimatedMaxPages

\* The step is a call of getEncounterRankingsBatch.
IsAttempt == roundPc = "batch" /\ attempts' = attempts + 1

\* C22: a batch is called at most MAX_RETRIES + 1 times; every call after
\* the first comes after one wait of RETRY_DELAY_MS per earlier call; a
\* failed call is followed by a wait, or by the fatal error when it was
\* call MAX_RETRIES + 1, after which nothing of the loop moves; a call
\* that succeeds sets the loop going with its results.
C22_RetryBudget ==
    [][/\ attempts' <= MAX_RETRIES + 1
       /\ IsAttempt => delays = attempts
       /\ delays' = delays + 1 => now' = now + RETRY_DELAY_MS
       /\ (IsAttempt /\ result'.outcome # "ok") =>
              roundPc' = IF attempts' = MAX_RETRIES + 1 THEN "fatal" ELSE "delay"
       /\ (IsAttempt /\ result'.outcome = "ok" /\ ~aborted) =>
              roundPc' = "top" /\ pageNo' = pageNo + dynamicBatchSize
       /\ roundPc = "fatal" => roundPc' = "fatal" /\ pageNo' = pageNo /\ attempts' = attempts
      ]_vars

\* Three calls of one batch failed, two waits between them, and the
\* search ended with the fatal error.
C22_Witness ==
    /\ roundPc = "fatal"
    /\ attempts = MAX_RETRIES + 1
    /\ delays = MAX_RETRIES
    /\ now = StartTime + MAX_RETRIES * RETRY_DELAY_MS

\* C27: a call of the batch that fails for want of points is followed
\* neither by the wait nor by another call of the batch.
C27_QuotaNotRetried ==
    [][(IsAttempt /\ result'.outcome = "quota") => roundPc' \notin {"delay", "batch"}]_vars

\* C28: for a fight with nothing cached, where the uncached pages are the
\* remaining pages, a round asks for the least of MAX_BATCH_SIZE, the
\* remaining points when they are known, and the pages remaining to the
\* estimated end; when that is 0 or less, a budget of 0 included, the loop
\* ends without a call.
C28_BatchSizeIsMinimum ==
    [][(roundPc = "top" /\ roundPc' # "top" /\ hasMorePages /\ pageNo <= Whole(MAX_PAGES)
            /\ ~aborted /\ ~hasCache) =>
          LET remaining == Whole(estimatedMaxPages) - pageNo + Whole(1)
              least == MinOf({Whole(MAX_BATCH_SIZE), remaining}
                           \cup (IF availablePointsNow = null THEN {} ELSE {availablePointsNow}))
          IN  IF least <= 0 THEN roundPc' = "done"
              ELSE roundPc' = "batch" /\ dynamicBatchSize' = least
      ]_vars

\* The loop head decides after a round that returned page results.
DecidesAfterRound ==
    /\ roundPc = "top"
    /\ roundPc' # "top"
    /\ ~aborted
    /\ result.op = "batchAttempt"
    /\ result.batchResults # <<>>

\* The last page result of the round has its flag set and the next page is
\* within the known max page and MAX_PAGES.
LastFlagAndInRange ==
    /\ result.batchResults[Len(result.batchResults)].hasMorePages
    /\ pageNo <= Whole(KnownMaxPage)
    /\ pageNo <= Whole(MAX_PAGES)

SizesBatch == roundPc = "top" /\ roundPc' = "batch"

\* C35: a batch the loop sizes from a known point budget passes the point
\* check of query: its size times POINTS_PER_REQUEST is at most the budget
\* the size was taken from.
C35_SizedBatchPassesPointCheck ==
    [][(SizesBatch /\ availablePointsNow # null /\ availablePointsNow # 0)
          => dynamicBatchSize' * POINTS_PER_REQUEST <= Whole(availablePointsNow)]_vars

\* C39: every round asks for a range of whole pages, at least 1 and at
\* most MAX_BATCH_SIZE of them, that ends at or before the known max page
\* and MAX_PAGES, and the next round starts after the last page of the
\* round before.
C39_RoundsAreWholeAscendingRanges ==
    [][/\ SizesBatch =>
              /\ \E n \in 1..MAX_PAGES : pageNo = Whole(n)
              /\ \E n \in 1..MAX_BATCH_SIZE : dynamicBatchSize' = Whole(n)
              /\ pageNo + Whole(turnsOf(dynamicBatchSize') - 1) <= Whole(MAX_PAGES)
              /\ KnownMaxPage # 0 =>
                     pageNo + Whole(turnsOf(dynamicBatchSize') - 1) <= Whole(KnownMaxPage)
       /\ (IsAttempt /\ result'.outcome = "ok" /\ roundPc' = "top") =>
              pageNo' >= pageNo + Whole(turnsOf(dynamicBatchSize))
      ]_vars

----
(* Properties of the loop over the fights, checked under FightsSpec *)

\* The fight came to its end: verification is over, or there was nothing
\* to verify.
FightEnds == searchPhase \in {"verified", "nomatch"} /\ searchPhase' \notin {"verified", "nomatch"}

\* C23: fightMatches grows only by a candidate match() accepts,
\* verifiedMatches only by the candidate of fightMatches that verifyRDPS
\* has just returned true for, and allMatches only by the verifiedMatches
\* of the fight that ends; a fight that ends with no verified match leaves
\* allMatches, allRankingsData, matchedFight and the callbacks as they were.
C23_OnlyVerifiedMatches ==
    [][/\ Len(fightMatches') > Len(fightMatches) =>
              /\ fightMatches' = Append(fightMatches, match(result'.ranking))
              /\ match(result'.ranking).matched
       /\ Len(verifiedMatches') > Len(verifiedMatches) =>
              /\ verifiedMatches' = Append(verifiedMatches, fightMatches[matchIndex])
              /\ result'.op = "verifyRDPS"
              /\ result'.value /\ ~result'.threw
              /\ ListsAgree(result'.anonymousRDPS, result'.publicRDPS)
       /\ allMatches' # allMatches =>
              /\ FightEnds
              /\ verifiedMatches # <<>>
              /\ allMatches' = allMatches \o withFight(verifiedMatches, fights[fightIndex].id)
       /\ (FightEnds /\ verifiedMatches = <<>>) =>
              UNCHANGED <<allMatches, allRankingsData, matchedFight, callbacks>>
      ]_vars

\* A fight with heuristic matches, none of them verified, has ended in
\* multi-fight mode and the result is as empty as before.
C23_Witness ==
    /\ result.op = "endFight"
    /\ result.heuristic > 0
    /\ result.verified = 0
    /\ multipleSearchMode
    /\ allMatches = <<>>
    /\ allRankingsData = <<>>
    /\ matchedFight = null
    /\ callbacks = <<>>

\* The fight has a match in allMatches.
Yielded(fightId) == \E i \in DOMAIN allMatches : allMatches[i].fightId = fightId

\* s is the start of t.
IsPrefix(s, t) == Len(s) <= Len(t) /\ \A i \in DOMAIN s : s[i] = t[i]

\* C24: when searchFights has returned without being stopped: in
\* single-fight mode with a match, the fights gone through are the first
\* ones of the list, the last of them is the matched fight and every match
\* is its; otherwise every fight of the list was gone through in order,
\* and in multi-fight mode the callbacks are the fights with a match, once
\* each and in that order.
C24_ModesOfReturn ==
    searchReturn = "returned" /\ fights # <<>> =>
        IF ~multipleSearchMode /\ allMatches # <<>>
        THEN /\ IsPrefix(processed, fightIds(fights))
             /\ matchedFight = processed[Len(processed)]
             /\ \A i \in DOMAIN allMatches : allMatches[i].fightId = matchedFight
        ELSE /\ processed = fightIds(fights)
             /\ multipleSearchMode => callbacks = SelectSeq(processed, Yielded)

\* Single-fight mode returned at the first of two fights.
C24_Witness ==
    /\ searchReturn = "returned"
    /\ ~multipleSearchMode
    /\ Len(fights) = 2
    /\ processed = <<fights[1].id>>
    /\ allMatches # <<>>

----
(* Properties of the cache lookups, checked under LookupSpec *)

\* C32: for the coordinate asked, hasCacheForFight is true exactly when
\* the store has a page under the key set writes for that coordinate, and
\* getCachedMaxPage is the highest such page, or null.
C32_LookupSeesStoredPages ==
    result.op = "lookup" =>
        LET c == result.coordinate
            stored == {p \in LookupPages :
                          getCacheKey(c[1], c[2], c[3], c[4], p, c[5]) \in keys(storage)}
        IN  /\ result.hasCache = (stored # {})
            /\ result.maxPage = IF stored = {} THEN null
                                ELSE CHOOSE m \in stored : \A n \in stored : n <= m

----
(* The request history across restarts, checked under RateSpec *)

----
(* The countdown wait and the refresh timer, checked under WaitSpec *)

----
(* Properties of the order of the fights, checked under OrderSpec *)

\* Where a fight stands in a list that holds it once.
PositionIn(list, f) == CHOOSE i \in DOMAIN list : list[i] = f

\* sorted holds the fights of input once each, those of input that Cached
\* holds for before the others, and each group in the order of input.
CachedFirstStable(sorted, input, Cached(_)) ==
    /\ Len(sorted) = Len(input)
    /\ \A i \in DOMAIN input : \E j \in DOMAIN sorted : sorted[j] = input[i]
    /\ \A i, j \in DOMAIN sorted :
          i < j => /\ ~(Cached(sorted[j]) /\ ~Cached(sorted[i]))
                   /\ (Cached(sorted[i]) <=> Cached(sorted[j]))
                         => PositionIn(input, sorted[i]) < PositionIn(input, sorted[j])

====
